---- MODULE Spec2Model ----
(***************************************************************************)
(* JVM configuration resolution of coroot-node-agent (package containers). *)
(*                                                                         *)
(* Go strings are modelled as sequences of one-character strings, so that  *)
(* the regular expressions and the strings.* calls of the source are       *)
(* computed character by character.  Offsets reported by the regexp        *)
(* package are 0-based, sequence indices are 1-based: an offset is an      *)
(* index minus one.  A float64 holding a byte count is an integer; a       *)
(* float64 holding a percentage is an integer number of hundredths         *)
(* (75.0 is 7500), which is exact for the literals used here.              *)
(***************************************************************************)
EXTENDS Integers, Sequences, FiniteSets, TLC

VARIABLES pc, op, cmdline, env, jvm, ret, calls, fallback, live, jvmVendor,
          history, occ, callers, clock, pressure

vars == <<pc, op, cmdline, env, jvm, ret, calls, fallback, live, jvmVendor,
          history, occ, callers, clock, pressure>>

(***************************************************************************)
(* Characters and the package strings                                      *)
(***************************************************************************)
Digits == {"0", "1", "2", "3", "4", "5", "6", "7", "8", "9"}

Lower == {"a", "b", "c", "d", "e", "f", "g", "h", "i", "j", "k", "l", "m",
          "n", "o", "p", "q", "r", "s", "t", "u", "v", "w", "x", "y", "z"}

Upper == {"A", "B", "C", "D", "E", "F", "G", "H", "I", "J", "K", "L", "M",
          "N", "O", "P", "Q", "R", "S", "T", "U", "V", "W", "X", "Y", "Z"}

IsDigit(c) == c \in Digits

IsLetter(c) == c \in Lower \cup Upper

IsSpace(c) == c \in {" ", "\t", "\n", "\r", "\f"}

DigitVal(c) ==
    CASE c = "0" -> 0 [] c = "1" -> 1 [] c = "2" -> 2 [] c = "3" -> 3
      [] c = "4" -> 4 [] c = "5" -> 5 [] c = "6" -> 6 [] c = "7" -> 7
      [] c = "8" -> 8 [] c = "9" -> 9

ToLowerChar(c) ==
    CASE c = "A" -> "a" [] c = "B" -> "b" [] c = "C" -> "c" [] c = "D" -> "d"
      [] c = "E" -> "e" [] c = "F" -> "f" [] c = "G" -> "g" [] c = "H" -> "h"
      [] c = "I" -> "i" [] c = "J" -> "j" [] c = "K" -> "k" [] c = "L" -> "l"
      [] c = "M" -> "m" [] c = "N" -> "n" [] c = "O" -> "o" [] c = "P" -> "p"
      [] c = "Q" -> "q" [] c = "R" -> "r" [] c = "S" -> "s" [] c = "T" -> "t"
      [] c = "U" -> "u" [] c = "V" -> "v" [] c = "W" -> "w" [] c = "X" -> "x"
      [] c = "Y" -> "y" [] c = "Z" -> "z" [] OTHER -> c

ToLower(s) == [i \in 1..Len(s) |-> ToLowerChar(s[i])]

\* s[i..] starts with p
HasPrefixAt(s, i, p) ==
    /\ i >= 1
    /\ i + Len(p) - 1 <= Len(s)
    /\ \A k \in 1..Len(p) : s[i + k - 1] = p[k]

HasPrefix(s, p) == HasPrefixAt(s, 1, p)

TrimPrefix(s, p) == IF HasPrefix(s, p) THEN SubSeq(s, Len(p) + 1, Len(s)) ELSE s

Contains(s, p) == \E i \in 1..(Len(s) + 1) : HasPrefixAt(s, i, p)

\* The scans below are loops in the source; each is written as the least index that
\* ends the loop, so that the depth of evaluation does not grow with the text.
\* first index >= i at which s holds no digit (Len(s)+1 when the digits reach the end)
DigitsEnd(s, i) ==
    CHOOSE j \in i..(Len(s) + 1) :
        /\ (j = Len(s) + 1 \/ ~IsDigit(s[j]))
        /\ \A k \in i..(j - 1) : IsDigit(s[k])

AlnumEnd(s, i) ==
    CHOOSE j \in i..(Len(s) + 1) :
        /\ (j = Len(s) + 1 \/ ~(IsDigit(s[j]) \/ IsLetter(s[j])))
        /\ \A k \in i..(j - 1) : IsDigit(s[k]) \/ IsLetter(s[k])

NonSpaceEnd(s, i) ==
    CHOOSE j \in i..(Len(s) + 1) :
        /\ (j = Len(s) + 1 \/ IsSpace(s[j]))
        /\ \A k \in i..(j - 1) : ~IsSpace(s[k])

SpaceEnd(s, i) ==
    CHOOSE j \in i..(Len(s) + 1) :
        /\ (j = Len(s) + 1 \/ ~IsSpace(s[j]))
        /\ \A k \in i..(j - 1) : IsSpace(s[k])

RECURSIVE FieldsFrom(_, _)
FieldsFrom(s, i) ==
    LET b == SpaceEnd(s, i)
    IN  IF b > Len(s) THEN <<>>
        ELSE LET e == NonSpaceEnd(s, b)
             IN  <<SubSeq(s, b, e - 1)>> \o FieldsFrom(s, e)

Fields(s) == FieldsFrom(s, 1)

TrimRight(s) ==
    LET n == CHOOSE j \in 0..Len(s) :
                 /\ (j = 0 \/ ~IsSpace(s[j]))
                 /\ \A k \in (j + 1)..Len(s) : IsSpace(s[k])
    IN  SubSeq(s, 1, n)

TrimSpace(s) == LET b == SpaceEnd(s, 1) IN TrimRight(SubSeq(s, b, Len(s)))

RECURSIVE Join(_, _)
Join(elems, sep) ==
    IF Len(elems) = 0 THEN <<>>
    ELSE IF Len(elems) = 1 THEN elems[1]
    ELSE elems[1] \o sep \o Join(Tail(elems), sep)

\* strconv: the value of a run of decimal digits
RECURSIVE Atoi(_)
Atoi(s) == IF Len(s) = 0 THEN 0 ELSE 10 * Atoi(SubSeq(s, 1, Len(s) - 1)) + DigitVal(s[Len(s)])

\* the digit that writes n, 0 <= n <= 9
DigitOf(n) == CHOOSE c \in Digits : DigitVal(c) = n

\* the literal ^\d+(\.\d+)?$ : the index after its integer digits, 0 when s is no such literal
DecimalSplit(s) ==
    LET d == DigitsEnd(s, 1)
    IN  IF d = 1 THEN 0
        ELSE IF d > Len(s) THEN d
        ELSE IF s[d] = "." /\ DigitsEnd(s, d + 1) > d + 1 /\ DigitsEnd(s, d + 1) > Len(s) THEN d
        ELSE 0

\* strconv.ParseFloat of a decimal literal, in hundredths
Hundredths(s) ==
    LET d == DecimalSplit(s)
        frac == SubSeq(s, d + 1, Len(s))
        f2 == IF Len(frac) = 0 THEN <<"0", "0">>
              ELSE IF Len(frac) = 1 THEN frac \o <<"0">>
              ELSE SubSeq(frac, 1, 2)
    IN  100 * Atoi(SubSeq(s, 1, d - 1)) + Atoi(f2)

(***************************************************************************)
(* Flag spellings                                                          *)
(***************************************************************************)
sXmx == <<"-", "X", "m", "x">>

sXms == <<"-", "X", "m", "s">>

sXX == <<"-", "X", "X", ":">>

sMaxHeapSize == <<"M", "a", "x", "H", "e", "a", "p", "S", "i", "z", "e">>

sMinHeapSize == <<"M", "i", "n", "H", "e", "a", "p", "S", "i", "z", "e">>

sInitialHeapSize == <<"I", "n", "i", "t", "i", "a", "l", "H", "e", "a", "p", "S", "i", "z", "e">>

sMaxRAMPercentage == <<"M", "a", "x", "R", "A", "M", "P", "e", "r", "c", "e", "n", "t", "a", "g", "e">>

sInitialRAMPercentage == <<"I", "n", "i", "t", "i", "a", "l", "R", "A", "M", "P", "e", "r", "c", "e", "n", "t", "a", "g", "e">>

\* fmt.Sprintf(`-XX:%s=`, name)
XXEq(name) == sXX \o name \o <<"=">>

(***************************************************************************)
(* containers/jvm_param_parser.go                                          *)
(***************************************************************************)
RECURSIVE Pow10(_)
Pow10(n) == IF n = 0 THEN 1 ELSE 10 * Pow10(n - 1)

\* ^(\d+(?:\.\d+)?)([kmgKMG]?)$ ; the float64 product is exact for integer literals,
\* a fractional literal is rounded down to whole bytes
parseMemorySize(sizeStr) ==
    LET n == Len(sizeStr)
        hasUnit == n > 0 /\ sizeStr[n] \in {"k", "m", "g", "K", "M", "G"}
        num == IF hasUnit THEN SubSeq(sizeStr, 1, n - 1) ELSE sizeStr
        unit == IF hasUnit THEN ToLowerChar(sizeStr[n]) ELSE ""
        mult == CASE unit = "k" -> 1024
                  [] unit = "m" -> 1024 * 1024
                  [] unit = "g" -> 1024 * 1024 * 1024
                  [] OTHER -> 1
        d == DecimalSplit(num)
        frac == SubSeq(num, d + 1, Len(num))
    IN  IF n = 0 \/ d = 0 THEN [err |-> TRUE, size |-> 0]
        ELSE [err |-> FALSE,
              size |-> Atoi(SubSeq(num, 1, d - 1)) * mult
                       + (Atoi(frac) * mult) \div Pow10(Len(frac))]

\* end (exclusive) of ([0-9]+(?:\.[0-9]+)?) matched at v
PercentValueEnd(s, v) ==
    LET d == DigitsEnd(s, v)
    IN  IF d <= Len(s) /\ s[d] = "." /\ DigitsEnd(s, d + 1) > d + 1
        THEN DigitsEnd(s, d + 1) ELSE d

PercentageAt(s, j, pattern) ==
    HasPrefixAt(s, j, pattern) /\ DigitsEnd(s, j + Len(pattern)) > j + Len(pattern)

\* the least element of a non-empty set of indices
First(S) == CHOOSE x \in S : \A y \in S : x <= y

\* FindAllStringSubmatch / FindAllStringIndex of pattern([0-9]+(?:\.[0-9]+)?), from index i:
\* the captured value and the start offset of each match, in scan order
RECURSIVE FindAllPercentage(_, _, _)
RECURSIVE PercentageMatch(_, _, _, _)
PercentageMatch(s, pattern, j, e) ==
    <<[value |-> SubSeq(s, j + Len(pattern), e - 1), pos |-> j - 1]>> \o FindAllPercentage(s, e, pattern)

PercentageFrom(s, pattern, hits) ==
    IF hits = {} THEN <<>>
    ELSE PercentageMatch(s, pattern, First(hits), PercentValueEnd(s, First(hits) + Len(pattern)))

FindAllPercentage(s, i, pattern) ==
    PercentageFrom(s, pattern, { j \in i..Len(s) : PercentageAt(s, j, pattern) })

\* a variant that reads the first match instead of the last, for comparison
parsePercentage_first(xxOptions, optionName) ==
    LET allMatches == FindAllPercentage(xxOptions, 1, XXEq(optionName))
    IN  IF Len(allMatches) > 0 THEN Hundredths(allMatches[1].value) ELSE 0

parsePercentage(xxOptions, optionName) ==
    LET allMatches == FindAllPercentage(xxOptions, 1, XXEq(optionName))
    IN  IF Len(allMatches) > 0 THEN Hundredths(allMatches[Len(allMatches)].value) ELSE 0

\* prefix(\d+[kmgKMG]?) matches at index i
SizeFlagAt(s, i, prefix) ==
    HasPrefixAt(s, i, prefix) /\ DigitsEnd(s, i + Len(prefix)) > i + Len(prefix)

\* a variant that matches the flag text anywhere, without the (?:^|\s) in front, for comparison
SizeFlagStart_anywhere(s, j, prefix) == IF SizeFlagAt(s, j, prefix) THEN j ELSE 0

\* index of the flag text of a match of (?:^|\s)prefix(\d+[kmgKMG]?) that begins at j, 0 when none
SizeFlagStart(s, j, prefix) ==
    IF j = 1 /\ SizeFlagAt(s, 1, prefix) THEN 1
    ELSE IF IsSpace(s[j]) /\ SizeFlagAt(s, j + 1, prefix) THEN j + 1
    ELSE 0

SizeValueEnd(s, v) ==
    LET d == DigitsEnd(s, v)
    IN  IF d <= Len(s) /\ s[d] \in {"k", "m", "g", "K", "M", "G"} THEN d + 1 ELSE d

\* FindAllStringSubmatch and FindAllStringIndex of (?:^|\s)prefix(\d+[kmgKMG]?):
\* the captured value and the match's start offset, in scan order, from index i
RECURSIVE FindAllSizeFlag(_, _, _)
RECURSIVE SizeFlagMatch(_, _, _, _, _)
SizeFlagMatch(s, prefix, j, v, e) ==
    <<[value |-> SubSeq(s, v, e - 1), pos |-> j - 1]>> \o FindAllSizeFlag(s, e, prefix)

SizeFlagFrom(s, prefix, j, v) == SizeFlagMatch(s, prefix, j, v, SizeValueEnd(s, v))

SizeFlagHits(s, prefix, hits) ==
    IF hits = {} THEN <<>>
    ELSE SizeFlagFrom(s, prefix, First(hits), SizeFlagStart(s, First(hits), prefix) + Len(prefix))

FindAllSizeFlag(s, i, prefix) ==
    SizeFlagHits(s, prefix, { j \in i..Len(s) : SizeFlagStart(s, j, prefix) # 0 })

maxHeapMatches(input) ==
    FindAllSizeFlag(input, 1, sXmx) \o FindAllSizeFlag(input, 1, XXEq(sMaxHeapSize))

initialHeapMatches(input) ==
    FindAllSizeFlag(input, 1, sXms) \o FindAllSizeFlag(input, 1, XXEq(sMinHeapSize))

\* for _, match := range matches { if match.pos > rightmostPos { ... } }
RECURSIVE rightmostLoop(_, _, _)
rightmostLoop(matches, k, acc) ==
    IF k > Len(matches) THEN acc
    ELSE rightmostLoop(matches, k + 1, IF matches[k].pos > acc.pos THEN matches[k] ELSE acc)

\* a variant of the selection that keeps the first match of the list, for comparison
rightmost_first(matches) == IF Len(matches) > 0 THEN matches[1] ELSE [value |-> <<>>, pos |-> -1]

rightmost(matches) == rightmostLoop(matches, 1, [value |-> <<>>, pos |-> -1])

\* end (exclusive) of -XX:[+-]?[A-Za-z][A-Za-z0-9]*(?:=[^\s]+)? matched at i, 0 when none
XXTokenEnd(s, i) ==
    IF ~HasPrefixAt(s, i, sXX) THEN 0
    ELSE LET a == i + 4
             b == IF a <= Len(s) /\ s[a] \in {"+", "-"} THEN a + 1 ELSE a
         IN  IF b > Len(s) \/ ~IsLetter(s[b]) THEN 0
             ELSE LET c == AlnumEnd(s, b + 1)
                  IN  IF c < Len(s) /\ s[c] = "=" /\ ~IsSpace(s[c + 1])
                      THEN NonSpaceEnd(s, c + 1) ELSE c

\* end (exclusive) of a match of xxRegex that begins at j, 0 when none
XXMatchEnd(s, j) ==
    IF j = 1 /\ XXTokenEnd(s, 1) # 0 THEN XXTokenEnd(s, 1)
    ELSE IF IsSpace(s[j]) THEN XXTokenEnd(s, j + 1)
    ELSE 0

\* xxRegex.FindAllString(input, -1), from index i
RECURSIVE xxMatches(_, _)
RECURSIVE xxMatch(_, _, _)
xxMatch(s, j, e) == <<SubSeq(s, j, e - 1)>> \o xxMatches(s, e)

xxMatchHits(s, hits) ==
    IF hits = {} THEN <<>> ELSE xxMatch(s, First(hits), XXMatchEnd(s, First(hits)))

xxMatches(s, i) == xxMatchHits(s, { j \in i..Len(s) : XXMatchEnd(s, j) # 0 })

\* cleanMatches: each match without the white space the pattern took in front of it
cleanMatches(m) == [i \in 1..Len(m) |-> TrimSpace(m[i])]

\* a variant that lists the matches from the last to the first, for comparison
xxOptionsString_reversed(input) ==
    LET m == cleanMatches(xxMatches(input, 1))
    IN  Join([i \in 1..Len(m) |-> m[Len(m) + 1 - i]], <<",">>)

xxOptionsString(input) == Join(cleanMatches(xxMatches(input, 1)), <<",">>)

\* the size parsed from the rightmost of matches, 0 when there is none or it does not parse
heapSize(matches) ==
    IF Len(matches) > 0 /\ ~parseMemorySize(rightmost(matches).value).err
    THEN parseMemorySize(rightmost(matches).value).size
    ELSE 0

\* the end of parseJVMParamsFromString: the sentinel -1 for each percentage greater than 0
withPercentages(maxSize, iniSize, maxPct, iniPct, xx) ==
    [JavaMaxHeapSize |-> IF maxPct > 0 THEN -1 ELSE maxSize,
     JavaInitialHeapSize |-> IF iniPct > 0 THEN -1 ELSE iniSize,
     JavaMaxHeapAsPercentage |-> maxPct,
     JavaInitialHeapAsPercentage |-> iniPct,
     XXOptions |-> xx]

\* parseJVMParamsFromString from the sizes found and the text of the -XX options
parseXXOptions(maxSize, iniSize, xx) ==
    withPercentages(maxSize, iniSize, parsePercentage(xx, sMaxRAMPercentage),
                    parsePercentage(xx, sInitialRAMPercentage), xx)

parseJVMParamsFromString(input) ==
    parseXXOptions(heapSize(maxHeapMatches(input)), heapSize(initialHeapMatches(input)),
                   xxOptionsString(input))

(***************************************************************************)
(* The later revision of parseJVMParamsFromString, with the position-based *)
(* precedence between -XX:MaxRAMPercentage and the absolute sizes.         *)
(***************************************************************************)
\* maxHeapSizePos: the offset of the rightmost match once its size parsed, else -1
heapSizePos(matches) ==
    IF Len(matches) > 0 /\ ~parseMemorySize(rightmost(matches).value).err
    THEN rightmost(matches).pos
    ELSE -1

\* maxRAMPercentagePos: the offset of the last match of the percentage pattern in input, else -1
lastPos(matches) == IF Len(matches) > 0 THEN matches[Len(matches)].pos ELSE -1

\* the end of this revision: the percentage replaces the maximum size when no size was found,
\* or when several sizes were found and the percentage flag stands after the rightmost of them
withPercentages_part000(maxSize, multipleMaxHeapSizes, percentageAtEnd, iniSize, maxPct, iniPct, xx) ==
    [JavaMaxHeapSize |->
         IF maxPct > 0 /\ (maxSize = 0 \/ (multipleMaxHeapSizes /\ percentageAtEnd))
         THEN -1 ELSE maxSize,
     JavaInitialHeapSize |-> IF iniPct > 0 /\ iniSize = 0 THEN -1 ELSE iniSize,
     JavaMaxHeapAsPercentage |-> maxPct,
     JavaInitialHeapAsPercentage |-> iniPct,
     XXOptions |-> xx]

\* this revision from the matches of the maximum sizes and of the percentage pattern
parseXXOptions_part000(maxM, maxRAMMatches, iniSize, xx) ==
    withPercentages_part000(heapSize(maxM), Len(maxM) > 1, lastPos(maxRAMMatches) > heapSizePos(maxM),
                            iniSize,
                            IF Len(maxRAMMatches) > 0 THEN parsePercentage(xx, sMaxRAMPercentage) ELSE 0,
                            parsePercentage(xx, sInitialRAMPercentage), xx)

parseJVMParamsFromString_part000(input) ==
    parseXXOptions_part000(maxHeapMatches(input), FindAllPercentage(input, 1, XXEq(sMaxRAMPercentage)),
                           heapSize(initialHeapMatches(input)), xxOptionsString(input))

(***************************************************************************)
(* readEnviron and parseJVMParams                                          *)
(***************************************************************************)
\* the byte 0 that ends a record of /proc/<pid>/environ
NUL == "\\x00"

\* the lines the loop of readEnviron obtains from reader.ReadString(0), the terminator removed:
\* a final piece without a terminator ends the loop unprocessed
RECURSIVE ReadStrings(_, _)
ReadStrings(data, i) ==
    IF \A j \in i..Len(data) : data[j] # NUL THEN <<>>
    ELSE LET j == CHOOSE j \in i..Len(data) : data[j] = NUL /\ \A k \in i..(j - 1) : data[k] # NUL
         IN  <<SubSeq(data, i, j - 1)>> \o ReadStrings(data, j + 1)

\* strings.SplitN(line, "=", 2)
SplitN2(line) ==
    IF \A i \in 1..Len(line) : line[i] # "=" THEN <<line>>
    ELSE LET i == CHOOSE i \in 1..Len(line) : line[i] = "=" /\ \A k \in 1..(i - 1) : line[k] # "="
         IN  <<SubSeq(line, 1, i - 1), SubSeq(line, i + 1, Len(line))>>

\* the map returned for an environ file e: a later record of a key replaces an earlier one
readEnviron(e) ==
    IF ~e.readable THEN <<>>
    ELSE LET lines == ReadStrings(e.data, 1)
             kvs == { i \in 1..Len(lines) : Len(SplitN2(lines[i])) = 2 }
             keys == { SplitN2(lines[i])[1] : i \in kvs }
             last(k) == CHOOSE i \in kvs : /\ SplitN2(lines[i])[1] = k
                                          /\ \A j \in kvs : SplitN2(lines[j])[1] = k => j <= i
         IN  [k \in keys |-> SplitN2(lines[last(k)])[2]]

\* a variant that consults the variables in the opposite order, for comparison
envVars_reversed ==
    << <<"I", "B", "M", "_", "J", "A", "V", "A", "_", "O", "P", "T", "I", "O", "N", "S">>, <<"J", "D", "K", "_", "J", "A", "V", "A", "_", "O", "P", "T", "I", "O", "N", "S">>, <<"_", "J", "A", "V", "A", "_", "O", "P", "T", "I", "O", "N", "S">>, <<"J", "A", "V", "A", "_", "T", "O", "O", "L", "_", "O", "P", "T", "I", "O", "N", "S">> >>

envVars ==
    << <<"J", "A", "V", "A", "_", "T", "O", "O", "L", "_", "O", "P", "T", "I", "O", "N", "S">>, <<"_", "J", "A", "V", "A", "_", "O", "P", "T", "I", "O", "N", "S">>, <<"J", "D", "K", "_", "J", "A", "V", "A", "_", "O", "P", "T", "I", "O", "N", "S">>, <<"I", "B", "M", "_", "J", "A", "V", "A", "_", "O", "P", "T", "I", "O", "N", "S">> >>

\* combinedArgs after writing value, with the separating space the Builder needs
WriteArg(combinedArgs, value) ==
    IF value = <<>> THEN combinedArgs
    ELSE IF Len(combinedArgs) > 0 THEN combinedArgs \o <<" ">> \o value
    ELSE value

RECURSIVE combinedEnvArgs(_, _, _)
combinedEnvArgs(envMap, k, combinedArgs) ==
    IF k > Len(envVars) THEN combinedArgs
    ELSE combinedEnvArgs(envMap, k + 1,
                         IF envVars[k] \in DOMAIN envMap
                         THEN WriteArg(combinedArgs, envMap[envVars[k]])
                         ELSE combinedArgs)

\* combinedArgs.String() of parseJVMParams
combinedArgsString(cmdl, e) == WriteArg(combinedEnvArgs(readEnviron(e), 1, <<>>), cmdl)

\* a resolver whose Builder outlives the invocation: the arguments of the previous invocation
\* are still in it
parseJVMParams_sharedBuilder(cmdl, e) ==
    parseJVMParamsFromString(
        IF history = <<>> THEN combinedArgsString(cmdl, e)
        ELSE WriteArg(combinedArgsString(history[Len(history)].cmdline, history[Len(history)].env),
                      combinedArgsString(cmdl, e)))

parseJVMParams(cmdl, e) == parseJVMParamsFromString(combinedArgsString(cmdl, e))

parseJVMParams_part000(cmdl, e) == parseJVMParamsFromString_part000(combinedArgsString(cmdl, e))

(***************************************************************************)
(* unnamed/part_000, the vendor-aware resolver: JVMParams holds strings    *)
(***************************************************************************)
\* JVMParams{}
EmptyParams ==
    [JavaMaxHeapSize |-> <<>>, JavaInitialHeapSize |-> <<>>, JavaMaxHeapAsPercentage |-> <<>>,
     JavaInitialHeapAsPercentage |-> <<>>, GCType |-> ""]

\* the character U+00D7 that parseSize writes between the number and the multiplier
MulSign == "U+00D7"

\* regexp ^\d+$
AllDigits(s) == Len(s) > 0 /\ \A i \in 1..Len(s) : IsDigit(s[i])

\* the end of \d+(?:\.\d+)? whose integer digits end at d
FractionEnd(s, d) ==
    IF d <= Len(s) /\ s[d] = "." /\ DigitsEnd(s, d + 1) > d + 1 THEN DigitsEnd(s, d + 1) ELSE d

\* fmt.Sprintf("%d", multiplier), written out digit by digit
multiplierString(unit) ==
    CASE unit = "k" -> <<"1", "0", "2", "4">>
      [] unit = "m" -> <<"1", "0", "4", "8", "5", "7", "6">>
      [] unit = "g" -> <<"1", "0", "7", "3", "7", "4", "1", "8", "2", "4">>
      [] unit = "t" -> <<"1", "0", "9", "9", "5", "1", "1", "6", "2", "7", "7", "7", "6">>
      [] OTHER -> <<"1">>

\* the rest of ^(\d+(?:\.\d+)?)\s*([kmgt]?)b?$ on s, whose integer digits end at d and whose
\* unit, if any, is at w
parseSizeUnit(s, d, w) ==
    LET hasUnit == w <= Len(s) /\ s[w] \in {"k", "m", "g", "t"}
        u == IF hasUnit THEN w + 1 ELSE w
        b == IF u <= Len(s) /\ s[u] = "b" THEN u + 1 ELSE u
    IN  IF d > 1 /\ b = Len(s) + 1
        THEN SubSeq(s, 1, d - 1) \o <<MulSign>> \o multiplierString(IF hasUnit THEN s[w] ELSE "")
        ELSE <<>>

\* parseSize once sizeStr is lower-cased and trimmed
parseSizeLower(s) ==
    IF Len(s) = 0 THEN <<>>
    ELSE IF AllDigits(s) THEN s
    ELSE parseSizeUnit(s, DigitsEnd(s, 1), SpaceEnd(s, FractionEnd(s, DigitsEnd(s, 1))))

parseSize(sizeStr) == parseSizeLower(ToLower(TrimSpace(sizeStr)))

\* the cases of the switch of parseGCTypeFromCmdline, in order
cmdlineGCFlags ==
    << [flag |-> <<"-", "X", "X", ":", "+", "U", "s", "e", "Z", "G", "C">>, gcType |-> "ZGC"],
       [flag |-> <<"-", "X", "X", ":", "+", "U", "s", "e", "S", "h", "e", "n", "a", "n", "d", "o", "a", "h", "G", "C">>, gcType |-> "ShenandoahGC"],
       [flag |-> <<"-", "X", "X", ":", "+", "U", "s", "e", "G", "1", "G", "C">>, gcType |-> "G1GC"],
       [flag |-> <<"-", "X", "X", ":", "+", "U", "s", "e", "P", "a", "r", "a", "l", "l", "e", "l", "G", "C">>, gcType |-> "ParallelGC"],
       [flag |-> <<"-", "X", "X", ":", "+", "U", "s", "e", "P", "a", "r", "a", "l", "l", "e", "l", "O", "l", "d", "G", "C">>, gcType |-> "ParallelOldGC"],
       [flag |-> <<"-", "X", "X", ":", "+", "U", "s", "e", "C", "o", "n", "c", "M", "a", "r", "k", "S", "w", "e", "e", "p", "G", "C">>, gcType |-> "ConcMarkSweepGC"],
       [flag |-> <<"-", "X", "X", ":", "+", "U", "s", "e", "S", "e", "r", "i", "a", "l", "G", "C">>, gcType |-> "SerialGC"],
       [flag |-> <<"-", "X", "g", "c", "p", "o", "l", "i", "c", "y", ":", "g", "e", "n", "c", "o", "n">>, gcType |-> "Generational Concurrent (OpenJ9)"],
       [flag |-> <<"-", "X", "g", "c", "p", "o", "l", "i", "c", "y", ":", "o", "p", "t", "t", "h", "r", "u", "p", "u", "t">>, gcType |-> "Throughput (OpenJ9)"],
       [flag |-> <<"-", "X", "g", "c", "p", "o", "l", "i", "c", "y", ":", "o", "p", "t", "a", "v", "g", "p", "a", "u", "s", "e">>, gcType |-> "Average Pause (OpenJ9)"],
       [flag |-> <<"-", "X", "g", "c", "p", "o", "l", "i", "c", "y", ":", "b", "a", "l", "a", "n", "c", "e", "d">>, gcType |-> "Balanced (OpenJ9)"] >>

\* the first case of a switch over table that arg satisfies, "" when none
FirstCase(table, arg) ==
    IF \A k \in 1..Len(table) : ~Contains(arg, table[k].flag) THEN ""
    ELSE table[CHOOSE k \in 1..Len(table) :
                   Contains(arg, table[k].flag) /\ \A j \in 1..(k - 1) : ~Contains(arg, table[j].flag)].gcType

parseGCTypeFromCmdline(args) ==
    IF \A i \in 1..Len(args) : FirstCase(cmdlineGCFlags, args[i]) = "" THEN "Unknown"
    ELSE FirstCase(cmdlineGCFlags,
                   args[CHOOSE i \in 1..Len(args) :
                            /\ FirstCase(cmdlineGCFlags, args[i]) # ""
                            /\ \A j \in 1..(i - 1) : FirstCase(cmdlineGCFlags, args[j]) = ""])

\* one iteration of the loop of parseFromCmdline
parseFromCmdlineArg(params, arg) ==
    IF HasPrefix(arg, sXmx)
    THEN LET size == parseSize(TrimPrefix(arg, sXmx))
         IN  IF size # <<>> THEN [params EXCEPT !.JavaMaxHeapSize = size] ELSE params
    ELSE IF HasPrefix(arg, sXms)
    THEN LET size == parseSize(TrimPrefix(arg, sXms))
         IN  IF size # <<>> THEN [params EXCEPT !.JavaInitialHeapSize = size] ELSE params
    ELSE IF HasPrefix(arg, XXEq(sMaxHeapSize))
    THEN [params EXCEPT !.JavaMaxHeapSize = TrimPrefix(arg, XXEq(sMaxHeapSize))]
    ELSE IF HasPrefix(arg, XXEq(sInitialHeapSize))
    THEN [params EXCEPT !.JavaInitialHeapSize = TrimPrefix(arg, XXEq(sInitialHeapSize))]
    ELSE IF HasPrefix(arg, XXEq(sMaxRAMPercentage))
    THEN [params EXCEPT !.JavaMaxHeapAsPercentage = TrimPrefix(arg, XXEq(sMaxRAMPercentage))]
    ELSE IF HasPrefix(arg, XXEq(sInitialRAMPercentage))
    THEN [params EXCEPT !.JavaInitialHeapAsPercentage = TrimPrefix(arg, XXEq(sInitialRAMPercentage))]
    ELSE params

RECURSIVE parseFromCmdlineLoop(_, _, _)
parseFromCmdlineLoop(args, k, params) ==
    IF k > Len(args) THEN params
    ELSE parseFromCmdlineLoop(args, k + 1, parseFromCmdlineArg(params, args[k]))

parseFromCmdline(cmdl) ==
    LET args == Fields(cmdl)
    IN  [parseFromCmdlineLoop(args, 1, EmptyParams) EXCEPT !.GCType = parseGCTypeFromCmdline(args)]

\* -XX:flagName=([^\s]+), the first submatch of the leftmost match, "" when none
extractFlagValue(line, flagName) ==
    LET pattern == XXEq(flagName)
        At(i) == /\ HasPrefixAt(line, i, pattern)
                 /\ i + Len(pattern) <= Len(line)
                 /\ ~IsSpace(line[i + Len(pattern)])
    IN  IF \A i \in 1..Len(line) : ~At(i) THEN <<>>
        ELSE LET i == CHOOSE i \in 1..Len(line) : At(i) /\ \A j \in 1..(i - 1) : ~At(j)
                 v == i + Len(pattern)
             IN  SubSeq(line, v, NonSpaceEnd(line, v) - 1)

extractOpenJ9Size(flag, prefix) ==
    IF ~HasPrefix(flag, prefix) THEN <<>> ELSE parseSize(TrimPrefix(flag, prefix))

\* params with field set to value unless value is ""
SetIfValue(params, field, value) ==
    IF value # <<>> THEN [params EXCEPT ![field] = value] ELSE params

\* one iteration of the loop of parseHotSpotVMFlags
parseHotSpotVMFlag(params, flag) ==
    IF ~HasPrefix(flag, sXX) THEN params
    ELSE IF Contains(flag, sMaxHeapSize \o <<"=">>)
    THEN SetIfValue(params, "JavaMaxHeapSize", extractFlagValue(flag, sMaxHeapSize))
    ELSE IF Contains(flag, sMinHeapSize \o <<"=">>)
    THEN SetIfValue(params, "JavaInitialHeapSize", extractFlagValue(flag, sMinHeapSize))
    ELSE IF Contains(flag, sInitialHeapSize \o <<"=">>)
    THEN SetIfValue(params, "JavaInitialHeapSize", extractFlagValue(flag, sInitialHeapSize))
    ELSE IF Contains(flag, sMaxRAMPercentage \o <<"=">>)
    THEN SetIfValue(params, "JavaMaxHeapAsPercentage", extractFlagValue(flag, sMaxRAMPercentage))
    ELSE IF Contains(flag, sInitialRAMPercentage \o <<"=">>)
    THEN SetIfValue(params, "JavaInitialHeapAsPercentage", extractFlagValue(flag, sInitialRAMPercentage))
    ELSE params

\* one iteration of the loop of parseOpenJ9VMFlags
parseOpenJ9VMFlag(params, flag) ==
    IF Contains(flag, sXmx)
    THEN SetIfValue(params, "JavaMaxHeapSize", extractOpenJ9Size(flag, sXmx))
    ELSE IF Contains(flag, sXms)
    THEN SetIfValue(params, "JavaInitialHeapSize", extractOpenJ9Size(flag, sXms))
    ELSE IF HasPrefix(flag, sXX) /\ Contains(flag, <<"=">>)
    THEN IF Contains(flag, sMaxHeapSize \o <<"=">>)
         THEN SetIfValue(params, "JavaMaxHeapSize", extractFlagValue(flag, sMaxHeapSize))
         ELSE IF Contains(flag, sInitialHeapSize \o <<"=">>)
         THEN SetIfValue(params, "JavaInitialHeapSize", extractFlagValue(flag, sInitialHeapSize))
         ELSE params
    ELSE params

RECURSIVE parseHotSpotVMFlagsLoop(_, _, _)
parseHotSpotVMFlagsLoop(flags, k, params) ==
    IF k > Len(flags) THEN params
    ELSE parseHotSpotVMFlagsLoop(flags, k + 1, parseHotSpotVMFlag(params, flags[k]))

parseHotSpotVMFlags(vmFlagsOutput) == parseHotSpotVMFlagsLoop(Fields(vmFlagsOutput), 1, EmptyParams)

RECURSIVE parseOpenJ9VMFlagsLoop(_, _, _)
parseOpenJ9VMFlagsLoop(flags, k, params) ==
    IF k > Len(flags) THEN params
    ELSE parseOpenJ9VMFlagsLoop(flags, k + 1, parseOpenJ9VMFlag(params, flags[k]))

parseOpenJ9VMFlags(vmFlagsOutput) == parseOpenJ9VMFlagsLoop(Fields(vmFlagsOutput), 1, EmptyParams)

parseGraalVMFlags(vmFlagsOutput) == parseHotSpotVMFlags(vmFlagsOutput)

\* gcFlags of parseHotSpotGCType
gcFlags ==
    << [flag |-> <<"+", "U", "s", "e", "Z", "G", "C">>, gcType |-> "ZGC"],
       [flag |-> <<"+", "U", "s", "e", "S", "h", "e", "n", "a", "n", "d", "o", "a", "h", "G", "C">>, gcType |-> "ShenandoahGC"],
       [flag |-> <<"+", "U", "s", "e", "G", "1", "G", "C">>, gcType |-> "G1GC"],
       [flag |-> <<"+", "U", "s", "e", "P", "a", "r", "a", "l", "l", "e", "l", "G", "C">>, gcType |-> "ParallelGC"],
       [flag |-> <<"+", "U", "s", "e", "P", "a", "r", "a", "l", "l", "e", "l", "O", "l", "d", "G", "C">>, gcType |-> "ParallelOldGC"],
       [flag |-> <<"+", "U", "s", "e", "C", "o", "n", "c", "M", "a", "r", "k", "S", "w", "e", "e", "p", "G", "C">>, gcType |-> "ConcMarkSweepGC"],
       [flag |-> <<"+", "U", "s", "e", "S", "e", "r", "i", "a", "l", "G", "C">>, gcType |-> "SerialGC"] >>

\* the value the inner loop over gcFlags leaves in detectedGC for one flag
detectedGCAfterFlag(detectedGC, flag) ==
    IF \A k \in 1..Len(gcFlags) : ~Contains(flag, gcFlags[k].flag) THEN detectedGC
    ELSE gcFlags[CHOOSE k \in 1..Len(gcFlags) :
                     /\ Contains(flag, gcFlags[k].flag)
                     /\ \A j \in (k + 1)..Len(gcFlags) : ~Contains(flag, gcFlags[j].flag)].gcType

RECURSIVE detectedGCLoop(_, _, _)
detectedGCLoop(flags, k, detectedGC) ==
    IF k > Len(flags) THEN detectedGC
    ELSE detectedGCLoop(flags, k + 1, detectedGCAfterFlag(detectedGC, flags[k]))

\* the return of one iteration of the inference loop of parseHotSpotGCType, "" when it falls through
inferredGC(flag) ==
    IF Contains(flag, <<"G", "1">>) THEN "G1GC"
    ELSE IF Contains(flag, <<"P", "a", "r", "a", "l", "l", "e", "l">>) /\ ~Contains(flag, <<"-", "U", "s", "e", "P", "a", "r", "a", "l", "l", "e", "l", "G", "C">>) THEN "ParallelGC"
    ELSE IF Contains(flag, <<"C", "o", "n", "c", "M", "a", "r", "k", "S", "w", "e", "e", "p">>) \/ Contains(flag, <<"C", "M", "S">>) THEN "ConcMarkSweepGC"
    ELSE IF Contains(flag, <<"S", "e", "r", "i", "a", "l">>) /\ ~Contains(flag, <<"-", "U", "s", "e", "S", "e", "r", "i", "a", "l", "G", "C">>) THEN "SerialGC"
    ELSE ""

\* a variant in which the first enabled collector wins, for comparison
parseHotSpotGCType_firstEnabled(flags) ==
    IF \A i \in 1..Len(flags) : detectedGCAfterFlag("", flags[i]) = "" THEN "Unknown"
    ELSE detectedGCAfterFlag("", flags[CHOOSE i \in 1..Len(flags) :
                                           /\ detectedGCAfterFlag("", flags[i]) # ""
                                           /\ \A j \in 1..(i - 1) : detectedGCAfterFlag("", flags[j]) = ""])

parseHotSpotGCType(flags) ==
    LET detectedGC == detectedGCLoop(flags, 1, "")
    IN  IF detectedGC # "" THEN detectedGC
        ELSE IF \A i \in 1..Len(flags) : inferredGC(flags[i]) = "" THEN "Unknown"
        ELSE inferredGC(flags[CHOOSE i \in 1..Len(flags) :
                                  inferredGC(flags[i]) # "" /\ \A j \in 1..(i - 1) : inferredGC(flags[j]) = ""])

\* the return of one iteration of the loop of parseOpenJ9GCType, "" when it falls through
openJ9GC(flag) ==
    IF Contains(flag, <<"g", "e", "n", "c", "o", "n">>) THEN "Generational Concurrent (OpenJ9)"
    ELSE IF Contains(flag, <<"o", "p", "t", "t", "h", "r", "u", "p", "u", "t">>) THEN "Throughput (OpenJ9)"
    ELSE IF Contains(flag, <<"o", "p", "t", "a", "v", "g", "p", "a", "u", "s", "e">>) THEN "Average Pause (OpenJ9)"
    ELSE IF Contains(flag, <<"b", "a", "l", "a", "n", "c", "e", "d">>) THEN "Balanced (OpenJ9)"
    ELSE ""

parseOpenJ9GCType(flags) ==
    IF \A i \in 1..Len(flags) : openJ9GC(flags[i]) = "" THEN "Unknown (OpenJ9)"
    ELSE openJ9GC(flags[CHOOSE i \in 1..Len(flags) :
                            openJ9GC(flags[i]) # "" /\ \A j \in 1..(i - 1) : openJ9GC(flags[j]) = ""])

parseGCType(flags, vendor) ==
    IF vendor = "OpenJ9" THEN parseOpenJ9GCType(flags) ELSE parseHotSpotGCType(flags)

parseVMFlagsOutput(vmFlagsOutput, vendor) ==
    IF TrimSpace(vmFlagsOutput) = <<>> THEN EmptyParams
    ELSE LET params == CASE vendor = "OpenJ9" -> parseOpenJ9VMFlags(vmFlagsOutput)
                         [] vendor = "GraalVM" -> parseGraalVMFlags(vmFlagsOutput)
                         [] OTHER -> parseHotSpotVMFlags(vmFlagsOutput)
         IN  [params EXCEPT !.GCType = parseGCType(Fields(vmFlagsOutput), vendor)]

detectJVMVendor(vmFlagsOutput) ==
    LET output == ToLower(vmFlagsOutput)
    IN  IF Contains(output, <<"o", "p", "e", "n", "j", "9">>) \/ Contains(output, <<"e", "c", "l", "i", "p", "s", "e">>) \/ Contains(output, <<"i", "b", "m">>)
        THEN "OpenJ9"
        ELSE IF Contains(output, <<"g", "r", "a", "a", "l", "v", "m">>) \/ Contains(output, <<"g", "r", "a", "a", "l">>)
        THEN "GraalVM"
        ELSE IF Contains(output, <<"h", "o", "t", "s", "p", "o", "t">>) \/ Contains(output, <<"o", "p", "e", "n", "j", "d", "k">>) \/ Contains(output, <<"o", "r", "a", "c", "l", "e">>)
        THEN "HotSpot"
        ELSE IF Contains(output, <<"-", "x", "x", ":", "m", "a", "x", "h", "e", "a", "p", "s", "i", "z", "e", "=">>) \/ Contains(output, <<"-", "x", "x", ":", "i", "n", "i", "t", "i", "a", "l", "h", "e", "a", "p", "s", "i", "z", "e", "=">>)
        THEN "HotSpot"
        ELSE "Unknown"

\* the switch over the system properties, "" when no case applies
vendorOfProperties(text) ==
    LET props == ToLower(text)
        vmName == Contains(props, <<"j", "a", "v", "a", ".", "v", "m", ".", "n", "a", "m", "e">>)
        vendor == Contains(props, <<"j", "a", "v", "a", ".", "v", "e", "n", "d", "o", "r">>)
    IN  IF vmName /\ (Contains(props, <<"o", "p", "e", "n", "j", "9">>) \/ Contains(props, <<"e", "c", "l", "i", "p", "s", "e">>) \/ Contains(props, <<"i", "b", "m">>))
        THEN "OpenJ9"
        ELSE IF vmName /\ Contains(props, <<"g", "r", "a", "a", "l", "v", "m">>)
        THEN "GraalVM"
        ELSE IF vmName /\ (Contains(props, <<"h", "o", "t", "s", "p", "o", "t">>) \/ Contains(props, <<"o", "p", "e", "n", "j", "d", "k">>))
        THEN "HotSpot"
        ELSE IF vendor /\ (Contains(props, <<"e", "c", "l", "i", "p", "s", "e">>) \/ Contains(props, <<"i", "b", "m">>))
        THEN "OpenJ9"
        ELSE IF vendor /\ Contains(props, <<"o", "r", "a", "c", "l", "e">>)
        THEN "HotSpot"
        ELSE ""

\* the switch over the version string, "Unknown" when no case applies
vendorOfVersion(text) ==
    LET version == ToLower(text)
    IN  IF Contains(version, <<"o", "p", "e", "n", "j", "9">>) \/ Contains(version, <<"e", "c", "l", "i", "p", "s", "e">>) \/ Contains(version, <<"i", "b", "m">>)
        THEN "OpenJ9"
        ELSE IF Contains(version, <<"g", "r", "a", "a", "l", "v", "m">>)
        THEN "GraalVM"
        ELSE IF Contains(version, <<"h", "o", "t", "s", "p", "o", "t">>) \/ Contains(version, <<"o", "p", "e", "n", "j", "d", "k">>)
        THEN "HotSpot"
        ELSE "Unknown"

\* the return of detectJVMVendorWithSystemProperties once the switch over props gave byProps,
\* and the transport calls made on the way
vendorAfterProperties(j, byProps) ==
    IF byProps # "" THEN [vendor |-> byProps, calls |-> <<"GetSystemProperties">>]
    ELSE [vendor |-> IF j.version.err THEN "Unknown" ELSE vendorOfVersion(j.version.out),
          calls |-> <<"GetSystemProperties", "GetVersion">>]

detectJVMVendorWithSystemProperties(j) ==
    IF j.props.err THEN [vendor |-> "Unknown", calls |-> <<"GetSystemProperties">>]
    ELSE vendorAfterProperties(j, vendorOfProperties(j.props.out))

\* the merge ParseJVMParams performs when the live dump gave neither heap size
mergeCmdline(params, cmdlineParams) ==
    [JavaMaxHeapSize |->
         IF cmdlineParams.JavaMaxHeapSize # <<>> THEN cmdlineParams.JavaMaxHeapSize
         ELSE params.JavaMaxHeapSize,
     JavaInitialHeapSize |->
         IF cmdlineParams.JavaInitialHeapSize # <<>> THEN cmdlineParams.JavaInitialHeapSize
         ELSE params.JavaInitialHeapSize,
     JavaMaxHeapAsPercentage |->
         IF cmdlineParams.JavaMaxHeapAsPercentage # <<>> THEN cmdlineParams.JavaMaxHeapAsPercentage
         ELSE params.JavaMaxHeapAsPercentage,
     JavaInitialHeapAsPercentage |->
         IF cmdlineParams.JavaInitialHeapAsPercentage # <<>> THEN cmdlineParams.JavaInitialHeapAsPercentage
         ELSE params.JavaInitialHeapAsPercentage,
     GCType |->
         IF params.GCType = "Unknown" /\ cmdlineParams.GCType # "Unknown" THEN cmdlineParams.GCType
         ELSE params.GCType]

\* ParseJVMParams from the record params the live dump gave: the record returned, the live
\* record, whether the command line was merged in, the transport calls made and the vendor used
ParseJVMParamsFromLive(cmdl, params, vendor_, vendorCalls) ==
    IF params.JavaMaxHeapSize = <<>> /\ params.JavaInitialHeapSize = <<>>
    THEN [params |-> mergeCmdline(params, parseFromCmdline(cmdl)), live |-> params,
          fallback |-> "merged", calls |-> <<"GetVMFlags">> \o vendorCalls, vendor |-> vendor_]
    ELSE [params |-> params, live |-> params,
          fallback |-> "none", calls |-> <<"GetVMFlags">> \o vendorCalls, vendor |-> vendor_]

\* ParseJVMParams once the vendor is settled
ParseJVMParamsWithVendor(cmdl, j, vendor_, vendorCalls) ==
    ParseJVMParamsFromLive(cmdl, parseVMFlagsOutput(j.vmFlags.out, vendor_), vendor_, vendorCalls)

\* ParseJVMParams once GetVMFlags answered and the system properties gave byProps
ParseJVMParamsAttached(cmdl, j, byProps) ==
    ParseJVMParamsWithVendor(cmdl, j,
                             IF byProps.vendor = "Unknown" THEN detectJVMVendor(j.vmFlags.out)
                             ELSE byProps.vendor,
                             byProps.calls)

\* a variant that goes on to ask for the vendor after a failed GetVMFlags, for comparison
ParseJVMParams_probing(cmdl, j) ==
    IF j.vmFlags.err
    THEN [params |-> parseFromCmdline(cmdl), live |-> EmptyParams, fallback |-> "attach-failed",
          calls |-> <<"GetVMFlags">> \o detectJVMVendorWithSystemProperties(j).calls,
          vendor |-> "none"]
    ELSE ParseJVMParamsAttached(cmdl, j, detectJVMVendorWithSystemProperties(j))

\* ParseJVMParams(cmdline, pid) on a JVM j
ParseJVMParams(cmdl, j) ==
    IF j.vmFlags.err
    THEN [params |-> parseFromCmdline(cmdl), live |-> EmptyParams, fallback |-> "attach-failed",
          calls |-> <<"GetVMFlags">>, vendor |-> "none"]
    ELSE ParseJVMParamsAttached(cmdl, j, detectJVMVendorWithSystemProperties(j))

(***************************************************************************)
(* containers/jvm_test.go:914-1101, the resolver whose JVMParams holds     *)
(* float64 and that reads the live dump only                               *)
(***************************************************************************)
\* JVMParams{}
ZeroParams ==
    [JavaMaxHeapSize |-> 0, JavaInitialHeapSize |-> 0, JavaMaxHeapAsPercentage |-> 0,
     JavaInitialHeapAsPercentage |-> 0, GCType |-> ""]

\* strconv.ParseFloat restricted to the literals digits[.digits]: any other text is an error here;
\* whole is the integer part (the byte counts drawn are whole numbers)
ParseFloat(value) ==
    IF DecimalSplit(value) = 0 THEN [err |-> TRUE, whole |-> 0, hundredths |-> 0]
    ELSE [err |-> FALSE, whole |-> Atoi(SubSeq(value, 1, DecimalSplit(value) - 1)),
          hundredths |-> Hundredths(value)]

\* one iteration of the loop of parseVMFlagsOutput
parseVMFlag_float(params, flag) ==
    LET Value(name) == extractFlagValue(flag, name)
        Parsed(name) == Value(name) # <<>> /\ ~ParseFloat(Value(name)).err
    IN  IF ~HasPrefix(flag, sXX) THEN params
        ELSE IF Contains(flag, sMaxHeapSize \o <<"=">>)
        THEN IF Parsed(sMaxHeapSize)
             THEN [params EXCEPT !.JavaMaxHeapSize = ParseFloat(Value(sMaxHeapSize)).whole]
             ELSE params
        ELSE IF Contains(flag, sMinHeapSize \o <<"=">>)
        THEN IF Parsed(sMinHeapSize)
             THEN [params EXCEPT !.JavaInitialHeapSize = ParseFloat(Value(sMinHeapSize)).whole]
             ELSE params
        ELSE IF Contains(flag, sInitialHeapSize \o <<"=">>)
        THEN IF Parsed(sInitialHeapSize)
             THEN [params EXCEPT !.JavaInitialHeapSize = ParseFloat(Value(sInitialHeapSize)).whole]
             ELSE params
        ELSE IF Contains(flag, sMaxRAMPercentage \o <<"=">>)
        THEN IF Parsed(sMaxRAMPercentage)
             THEN [params EXCEPT !.JavaMaxHeapAsPercentage = ParseFloat(Value(sMaxRAMPercentage)).hundredths,
                                 !.JavaMaxHeapSize = IF @ = 0 THEN -1 ELSE @]
             ELSE params
        ELSE IF Contains(flag, sInitialRAMPercentage \o <<"=">>)
        THEN IF Parsed(sInitialRAMPercentage)
             THEN [params EXCEPT !.JavaInitialHeapAsPercentage = ParseFloat(Value(sInitialRAMPercentage)).hundredths,
                                 !.JavaInitialHeapSize = IF @ = 0 THEN -1 ELSE @]
             ELSE params
        ELSE params

RECURSIVE parseVMFlagsLoop_float(_, _, _)
parseVMFlagsLoop_float(flags, k, params) ==
    IF k > Len(flags) THEN params
    ELSE parseVMFlagsLoop_float(flags, k + 1, parseVMFlag_float(params, flags[k]))

\* parseGCType of this file has the text of parseHotSpotGCType
parseVMFlagsOutput_float(vmFlagsOutput) ==
    LET flags == Fields(vmFlagsOutput)
    IN  [parseVMFlagsLoop_float(flags, 1, ZeroParams) EXCEPT !.GCType = parseHotSpotGCType(flags)]

ParseJVMParams_float(j) ==
    IF j.vmFlags.err THEN ZeroParams ELSE parseVMFlagsOutput_float(j.vmFlags.out)

(***************************************************************************)
(* unnamed/part_000, the fraction-aware revision of the live-dump resolver: *)
(* JVMParams has the field MinRAMPercentage, and the RAM fractions are read *)
(***************************************************************************)
\* JVMParams{}
FractionParams ==
    [JavaMaxHeapSize |-> <<>>, JavaInitialHeapSize |-> <<>>, JavaMaxHeapAsPercentage |-> <<>>,
     JavaInitialHeapAsPercentage |-> <<>>, MinRAMPercentage |-> <<>>, GCType |-> ""]

sMinRAMPercentage == <<"M", "i", "n", "R", "A", "M", "P", "e", "r", "c", "e", "n", "t", "a", "g", "e">>

sMaxRAMFraction == <<"M", "a", "x", "R", "A", "M", "F", "r", "a", "c", "t", "i", "o", "n">>

sInitialRAMFraction == <<"I", "n", "i", "t", "i", "a", "l", "R", "A", "M", "F", "r", "a", "c", "t", "i", "o", "n">>

sMinRAMFraction == <<"M", "i", "n", "R", "A", "M", "F", "r", "a", "c", "t", "i", "o", "n">>

\* fmt.Sprintf("%d", n) for n >= 0
RECURSIVE Itoa(_)
Itoa(n) == IF n < 10 THEN <<DigitOf(n)>> ELSE Itoa(n \div 10) \o <<DigitOf(n % 10)>>

\* fmt.Sprintf("%.1f", 100.0/fraction) for a fraction of h hundredths, h > 0: the quotient in
\* tenths, rounded to the nearest and to the even digit on a tie (the ties of the fractions drawn,
\* h < 100000, are exact in float64)
Sprintf1f(h) ==
    LET q == 100000 \div h
        r == 100000 % h
        t == IF 2 * r > h \/ (2 * r = h /\ q % 2 = 1) THEN q + 1 ELSE q
    IN  Itoa(t \div 10) \o <<".">> \o Itoa(t % 10)

\* the percentage a fraction flag contributes: strconv.ParseFloat of the literal [-]digits[.digits]
\* (any other text drawn is an error), the test fraction > 0, and the formatting; "" when the
\* flag contributes nothing
fractionPercentage(value) ==
    IF value = <<>> \/ Head(value) = "-" \/ ParseFloat(value).err \/ ParseFloat(value).hundredths = 0
    THEN <<>>
    ELSE Sprintf1f(ParseFloat(value).hundredths)

\* a branch that does not look at the percentage already set
SetFraction_overwriting(params, field, value) == SetIfValue(params, field, fractionPercentage(value))

\* the branch of a fraction flag: nothing when the percentage is already set
SetFraction(params, field, value) ==
    IF params[field] # <<>> THEN params ELSE SetIfValue(params, field, fractionPercentage(value))

\* one iteration of the loop of parseVMFlagsOutput
parseVMFlag_fraction(params, flag) ==
    IF ~HasPrefix(flag, sXX) THEN params
    ELSE IF Contains(flag, sMaxHeapSize \o <<"=">>)
    THEN SetIfValue(params, "JavaMaxHeapSize", extractFlagValue(flag, sMaxHeapSize))
    ELSE IF Contains(flag, sMinHeapSize \o <<"=">>)
    THEN SetIfValue(params, "JavaInitialHeapSize", extractFlagValue(flag, sMinHeapSize))
    ELSE IF Contains(flag, sInitialHeapSize \o <<"=">>)
    THEN SetIfValue(params, "JavaInitialHeapSize", extractFlagValue(flag, sInitialHeapSize))
    ELSE IF Contains(flag, sMaxRAMPercentage \o <<"=">>)
    THEN SetIfValue(params, "JavaMaxHeapAsPercentage", extractFlagValue(flag, sMaxRAMPercentage))
    ELSE IF Contains(flag, sInitialRAMPercentage \o <<"=">>)
    THEN SetIfValue(params, "JavaInitialHeapAsPercentage", extractFlagValue(flag, sInitialRAMPercentage))
    ELSE IF Contains(flag, sMinRAMPercentage \o <<"=">>)
    THEN SetIfValue(params, "MinRAMPercentage", extractFlagValue(flag, sMinRAMPercentage))
    ELSE IF Contains(flag, sMaxRAMFraction \o <<"=">>)
    THEN SetFraction(params, "JavaMaxHeapAsPercentage", extractFlagValue(flag, sMaxRAMFraction))
    ELSE IF Contains(flag, sInitialRAMFraction \o <<"=">>)
    THEN SetFraction(params, "JavaInitialHeapAsPercentage", extractFlagValue(flag, sInitialRAMFraction))
    ELSE IF Contains(flag, sMinRAMFraction \o <<"=">>)
    THEN SetFraction(params, "MinRAMPercentage", extractFlagValue(flag, sMinRAMFraction))
    ELSE params

RECURSIVE parseVMFlagsLoop_fraction(_, _, _)
parseVMFlagsLoop_fraction(flags, k, params) ==
    IF k > Len(flags) THEN params
    ELSE parseVMFlagsLoop_fraction(flags, k + 1, parseVMFlag_fraction(params, flags[k]))

\* parseGCType of this revision has the text of parseHotSpotGCType
parseVMFlagsOutput_fraction(vmFlagsOutput) ==
    LET flags == Fields(vmFlagsOutput)
    IN  [parseVMFlagsLoop_fraction(flags, 1, FractionParams) EXCEPT !.GCType = parseHotSpotGCType(flags)]

(***************************************************************************)
(* node/pressure.go: the two classifiers of memory pressure; an average is *)
(* held in hundredths of a percent, the precision of the pressure file     *)
(***************************************************************************)
IsMemoryPressureHigh(p) ==
    \/ p.Some.Avg10 > 1000
    \/ p.Some.Avg60 > 500
    \/ p.Some.Avg300 > 100

GetMemoryPressureLevel(p) ==
    IF p.Some.Avg10 > 5000 \/ p.Full.Avg10 > 1000 THEN "critical"
    ELSE IF p.Some.Avg10 > 2000 \/ p.Full.Avg10 > 100 THEN "high"
    ELSE IF p.Some.Avg10 > 1000 \/ p.Some.Avg60 > 500 THEN "medium"
    ELSE IF p.Some.Avg10 > 0 \/ p.Some.Avg60 > 0 THEN "low"
    ELSE "none"

(***************************************************************************)
(* unnamed/part_001: RecordOOM of the OOMContextCollector. An entry of     *)
(* recentOOMs is held as its Timestamp, the only field the clean-up reads. *)
(***************************************************************************)
\* the number of entries above which RecordOOM cleans up: 100 in the code, scaled down here so
\* that a few calls reach the clean-up
KeptOOMs == 3

\* occ.recentOOMs[pid] = context
WithOOM(recentOOMs, pid, timestamp) ==
    [p \in DOMAIN recentOOMs \cup {pid} |-> IF p = pid THEN timestamp ELSE recentOOMs[p]]

\* delete(occ.recentOOMs, pid), which does nothing when pid has no entry
WithoutOOM(recentOOMs, pid) == [p \in DOMAIN recentOOMs \ {pid} |-> recentOOMs[p]]

\* the values oldestPid may have after the loop that starts from oldestTime: the zero value when no
\* entry is before oldestTime; else an entry of the least timestamp, the one of them that the
\* iteration over the map meets first
OldestPids(recentOOMs, oldestTime) ==
    IF \A p \in DOMAIN recentOOMs : ~(recentOOMs[p] < oldestTime) THEN {0}
    ELSE { p \in DOMAIN recentOOMs : \A q \in DOMAIN recentOOMs : recentOOMs[p] <= recentOOMs[q] }

(***************************************************************************)
(* Inputs                                                                  *)
(***************************************************************************)
\* the longest argument list drawn for a resolver call
MaxTokens == 3

Vocabulary ==
    { <<"j", "a", "v", "a">>,
      <<"-", "X", "m", "x", "1", "k">>,
      <<"-", "X", "X", ":", "M", "a", "x", "H", "e", "a", "p", "S", "i", "z", "e", "=", "2", "m">>,
      <<"-", "X", "m", "s", "3", "k">>,
      <<"-", "X", "X", ":", "M", "i", "n", "H", "e", "a", "p", "S", "i", "z", "e", "=", "4", "m">>,
      <<"-", "X", "X", ":", "I", "n", "i", "t", "i", "a", "l", "H", "e", "a", "p", "S", "i", "z", "e", "=", "5", "k">>,
      <<"-", "X", "X", ":", "M", "a", "x", "R", "A", "M", "P", "e", "r", "c", "e", "n", "t", "a", "g", "e", "=", "5", "0", ".", "5">>,
      <<"-", "X", "X", ":", "M", "a", "x", "R", "A", "M", "P", "e", "r", "c", "e", "n", "t", "a", "g", "e", "=", "0">>,
      <<"-", "X", "X", ":", "I", "n", "i", "t", "i", "a", "l", "R", "A", "M", "P", "e", "r", "c", "e", "n", "t", "a", "g", "e", "=", "2", "5">> }

\* the argument lists of at most n words of W, each joined by single spaces
Blobs(W, n) == { Join(ts, <<" ">>) : ts \in UNION { [1..k -> W] : k \in 0..n } }

NoParams ==
    [JavaMaxHeapSize |-> 0, JavaInitialHeapSize |-> 0, JavaMaxHeapAsPercentage |-> 0,
     JavaInitialHeapAsPercentage |-> 0, XXOptions |-> <<>>]

\* no entry: the map make(map[uint32]*OOMContext) gives
NoOOMs == [p \in {} |-> 0]

\* the threads that may call RecordOOM
Threads == {1, 2}

\* a thread outside RecordOOM
Outside == [pc |-> "outside", pid |-> 0, Timestamp |-> 0]

\* SystemPressure{}: the six averages of the memory file, in hundredths of a percent
NoPressure ==
    [Some |-> [Avg10 |-> 0, Avg60 |-> 0, Avg300 |-> 0], Full |-> [Avg10 |-> 0, Avg60 |-> 0, Avg300 |-> 0]]

\* the state outside one resolver invocation: no earlier invocation, a fresh collector that no
\* thread uses, no pressure reading
NothingElse ==
    /\ history = <<>>
    /\ occ = [recentOOMs |-> NoOOMs, mutex |-> 0]
    /\ callers = [t \in Threads |-> Outside]
    /\ clock = 0
    /\ pressure = NoPressure

\* an environ file: whether it can be opened, and its bytes
NoEnv == [readable |-> FALSE, data |-> <<>>]

\* an outcome of a transport call: an error, or the text the JVM answered
Failed == [err |-> TRUE, out |-> <<>>]

Answered(text) == [err |-> FALSE, out |-> text]

NoJVM == [vmFlags |-> Failed, props |-> Failed, version |-> Failed]

(***************************************************************************)
(* The string resolver: one call of parseJVMParamsFromString on one input  *)
(***************************************************************************)
Init ==
    /\ pc = "call"
    /\ op = "none"
    /\ cmdline \in Blobs(Vocabulary, MaxTokens)
    /\ env = NoEnv
    /\ jvm = NoJVM
    /\ ret = NoParams
    /\ calls = <<>>
    /\ fallback = "none"
    /\ jvmVendor = "none"
    /\ live = NoParams
    /\ NothingElse

CallParseJVMParamsFromString ==
    /\ pc = "call"
    /\ pc' = "done"
    /\ op' = "parseJVMParamsFromString"
    /\ ret' = parseJVMParamsFromString(cmdline)
    /\ UNCHANGED <<cmdline, env, jvm, calls, fallback, live, jvmVendor, history, occ, callers, clock, pressure>>

CallParseJVMParamsFromString_part000 ==
    /\ pc = "call"
    /\ pc' = "done"
    /\ op' = "parseJVMParamsFromString_part000"
    /\ ret' = parseJVMParamsFromString_part000(cmdline)
    /\ UNCHANGED <<cmdline, env, jvm, calls, fallback, live, jvmVendor, history, occ, callers, clock, pressure>>

Next ==
    \/ CallParseJVMParamsFromString
    \/ CallParseJVMParamsFromString_part000

Spec == Init /\ [][Next]_vars

\* the longest input drawn with malformed size literals, in tokens
MaxMalformedTokens == 3

\* size flags whose literal is malformed (an unknown unit, a second unit letter, a fraction with
\* an unknown unit), well-formed size flags and a flag of another kind
MalformedVocabulary ==
    { <<"-", "X", "m", "x", "2", "t">>, <<"-", "X", "m", "x", "2", "k", "b">>, <<"-", "X", "m", "x", "1", ".", "5", "x">>, <<"-", "X", "m", "s", "3", "t">>, <<"-", "X", "X", ":", "M", "a", "x", "H", "e", "a", "p", "S", "i", "z", "e", "=", "4", "q">>,
      <<"-", "X", "m", "x", "1", "k">>, <<"-", "X", "m", "s", "1", "k">>, <<"-", "X", "X", ":", "+", "U", "s", "e", "G", "1", "G", "C">> }

InitMalformed ==
    /\ pc = "call"
    /\ op = "none"
    /\ cmdline \in Blobs(MalformedVocabulary, MaxMalformedTokens)
    /\ env = NoEnv
    /\ jvm = NoJVM
    /\ ret = NoParams
    /\ calls = <<>>
    /\ fallback = "none"
    /\ jvmVendor = "none"
    /\ live = NoParams
    /\ NothingElse

SpecMalformed == InitMalformed /\ [][Next]_vars

(***************************************************************************)
(* The fallback resolver: one call of parseJVMParams on one process, whose *)
(* environ file is drawn with the command line                             *)
(***************************************************************************)
\* the longest value drawn for one environment variable or for the command line, in flags
MaxEnvTokens == 1

\* the sources of flags in the order of the variable list, the command line fifth; the flags
\* drawn for source n carry the size n kilobytes, which tells the sources apart in a result
SourceNames ==
    << <<"J", "A", "V", "A", "_", "T", "O", "O", "L", "_", "O", "P", "T", "I", "O", "N", "S">>, <<"_", "J", "A", "V", "A", "_", "O", "P", "T", "I", "O", "N", "S">>, <<"J", "D", "K", "_", "J", "A", "V", "A", "_", "O", "P", "T", "I", "O", "N", "S">>, <<"I", "B", "M", "_", "J", "A", "V", "A", "_", "O", "P", "T", "I", "O", "N", "S">> >>

SourceVocabulary(n) == { sXmx \o <<DigitOf(n), "k">>, sXms \o <<DigitOf(n), "k">> }

\* a variable is unset, or set to a value that may be empty
Unset == [set |-> FALSE, value |-> <<>>]

VariableChoices(n) ==
    {Unset} \cup { [set |-> TRUE, value |-> v] : v \in Blobs(SourceVocabulary(n), MaxEnvTokens) }

\* the record of variable n in the file
EnvironRecord(choice, n) ==
    IF choice[n].set THEN SourceNames[n] \o <<"=">> \o choice[n].value \o <<NUL>> ELSE <<>>

\* the bytes of /proc/<pid>/environ of a process started with choice: an unrelated variable
\* first, then the four variables in the opposite order of the list
EnvironData(choice) ==
    <<"H", "O", "M", "E", "=", "/", "r", "o", "o", "t">> \o <<NUL>> \o EnvironRecord(choice, 4) \o EnvironRecord(choice, 3)
        \o EnvironRecord(choice, 2) \o EnvironRecord(choice, 1)

EnvironFiles ==
    {NoEnv} \cup { [readable |-> TRUE, data |-> EnvironData(<<c1, c2, c3, c4>>)] :
                     c1 \in VariableChoices(1), c2 \in VariableChoices(2),
                     c3 \in VariableChoices(3), c4 \in VariableChoices(4) }

InitEnv ==
    /\ pc = "call"
    /\ op = "none"
    /\ cmdline \in Blobs(SourceVocabulary(5), MaxEnvTokens)
    /\ env \in EnvironFiles
    /\ jvm = NoJVM
    /\ ret = NoParams
    /\ calls = <<>>
    /\ fallback = "none"
    /\ jvmVendor = "none"
    /\ live = NoParams
    /\ NothingElse

CallParseJVMParams_env ==
    /\ pc = "call"
    /\ pc' = "done"
    /\ op' = "parseJVMParams"
    /\ ret' = parseJVMParams(cmdline, env)
    /\ UNCHANGED <<cmdline, env, jvm, calls, fallback, live, jvmVendor, history, occ, callers, clock, pressure>>

CallParseJVMParams_env_part000 ==
    /\ pc = "call"
    /\ pc' = "done"
    /\ op' = "parseJVMParams_part000"
    /\ ret' = parseJVMParams_part000(cmdline, env)
    /\ UNCHANGED <<cmdline, env, jvm, calls, fallback, live, jvmVendor, history, occ, callers, clock, pressure>>

NextEnv ==
    \/ CallParseJVMParams_env
    \/ CallParseJVMParams_env_part000

SpecEnv == InitEnv /\ [][NextEnv]_vars

(***************************************************************************)
(* The string and fallback resolvers on inputs that hold size flags with a *)
(* wrong spelling                                                          *)
(***************************************************************************)
\* the longest command line drawn with wrongly spelled size flags, in tokens
MaxBoundaryTokens == 2

\* size flags with a second dash, in the wrong case or glued to a word, and two proper ones
BoundaryVocabulary ==
    { <<"-", "-", "X", "m", "x", "5", "k">>, <<"-", "X", "M", "S", "2", "k">>, <<"-", "x", "m", "x", "3", "k">>, <<"j", "a", "r", "-", "X", "m", "s", "4", "k">>, <<"-", "X", "m", "x", "1", "k">>, <<"-", "X", "m", "s", "1", "k">> }

\* environ files that set JAVA_TOOL_OPTIONS to one token or to nothing
BoundaryEnvirons ==
    {NoEnv} \cup { [readable |-> TRUE, data |-> envVars[1] \o <<"=">> \o v \o <<NUL>>] :
                     v \in Blobs(BoundaryVocabulary, 1) }

InitBoundary ==
    /\ pc = "call"
    /\ op = "none"
    /\ cmdline \in Blobs(BoundaryVocabulary, MaxBoundaryTokens)
    /\ env \in BoundaryEnvirons
    /\ jvm = NoJVM
    /\ ret = NoParams
    /\ calls = <<>>
    /\ fallback = "none"
    /\ jvmVendor = "none"
    /\ live = NoParams
    /\ NothingElse

NextBoundary ==
    \/ CallParseJVMParamsFromString
    \/ CallParseJVMParamsFromString_part000
    \/ CallParseJVMParams_env
    \/ CallParseJVMParams_env_part000

SpecBoundary == InitBoundary /\ [][NextBoundary]_vars

(***************************************************************************)
(* The fallback resolver on a process whose variables and command line     *)
(* hold -XX: options                                                       *)
(***************************************************************************)
\* the longest command line drawn with -XX: options, in tokens
MaxXXTokens == 2

\* a switch, a heap size and a percentage spelled as -XX: options, and a flag that is none
XXVocabulary ==
    { <<"-", "X", "X", ":", "+", "U", "s", "e", "G", "1", "G", "C">>, <<"-", "X", "X", ":", "M", "a", "x", "H", "e", "a", "p", "S", "i", "z", "e", "=", "1", "k">>, <<"-", "X", "X", ":", "M", "a", "x", "R", "A", "M", "P", "e", "r", "c", "e", "n", "t", "a", "g", "e", "=", "5", "0">>, <<"-", "X", "X", ":", "-", "A", "1">>, <<"-", "X", "m", "x", "2", "k">> }

XXVariableChoices == {Unset} \cup { [set |-> TRUE, value |-> v] : v \in XXVocabulary }

\* environ files that set JAVA_TOOL_OPTIONS and _JAVA_OPTIONS to one option or leave them unset
XXEnvirons ==
    { [readable |-> TRUE, data |-> EnvironData(<<c1, c2, Unset, Unset>>)] :
        c1 \in XXVariableChoices, c2 \in XXVariableChoices }

InitXX ==
    /\ pc = "call"
    /\ op = "none"
    /\ cmdline \in Blobs(XXVocabulary, MaxXXTokens)
    /\ env \in XXEnvirons
    /\ jvm = NoJVM
    /\ ret = NoParams
    /\ calls = <<>>
    /\ fallback = "none"
    /\ jvmVendor = "none"
    /\ live = NoParams
    /\ NothingElse

SpecXX == InitXX /\ [][NextEnv]_vars

(***************************************************************************)
(* The attach resolvers: one call of ParseJVMParams on one JVM, whose      *)
(* transport answers are drawn with the command line                       *)
(***************************************************************************)
\* the longest live dump drawn, in flags
MaxLiveFlags == 2

\* the longest command line drawn for an attach resolver, in arguments
MaxCmdTokens == 1

LiveVocabulary ==
    { <<"-", "X", "X", ":", "M", "a", "x", "H", "e", "a", "p", "S", "i", "z", "e", "=", "2", "0", "4", "8">>,
      <<"-", "X", "X", ":", "I", "n", "i", "t", "i", "a", "l", "H", "e", "a", "p", "S", "i", "z", "e", "=", "5", "1", "2">>,
      <<"-", "X", "X", ":", "M", "a", "x", "R", "A", "M", "P", "e", "r", "c", "e", "n", "t", "a", "g", "e", "=", "7", "5", ".", "0">>,
      <<"-", "X", "X", ":", "M", "a", "x", "R", "A", "M", "P", "e", "r", "c", "e", "n", "t", "a", "g", "e", "=", "0">>,
      <<"-", "X", "X", ":", "I", "n", "i", "t", "i", "a", "l", "R", "A", "M", "P", "e", "r", "c", "e", "n", "t", "a", "g", "e", "=", "2", "5", ".", "0">>,
      <<"-", "X", "m", "x", "1", "g">> }

CmdVocabulary ==
    { <<"-", "X", "m", "x", "2", "k">>,
      <<"-", "X", "m", "s", "3", "k">>,
      <<"-", "X", "X", ":", "M", "a", "x", "R", "A", "M", "P", "e", "r", "c", "e", "n", "t", "a", "g", "e", "=", "5", "0", ".", "0">>,
      <<"-", "X", "X", ":", "+", "U", "s", "e", "S", "e", "r", "i", "a", "l", "G", "C">> }

VMFlagsOutcomes == {Failed} \cup { Answered(d) : d \in Blobs(LiveVocabulary, MaxLiveFlags) }

PropsOutcomes ==
    { Failed,
      Answered(<<"j", "a", "v", "a", ".", "v", "m", ".", "n", "a", "m", "e", "=", "E", "c", "l", "i", "p", "s", "e", " ", "O", "p", "e", "n", "J", "9", " ", "V", "M">>),
      Answered(<<"j", "a", "v", "a", ".", "v", "e", "n", "d", "o", "r", "=", "A", "c", "m", "e">>) }

VersionOutcomes == { Failed, Answered(<<"G", "r", "a", "a", "l", "V", "M", " ", "C", "E", " ", "2", "2">>) }

InitAttach ==
    /\ pc = "call"
    /\ op = "none"
    /\ cmdline \in Blobs(CmdVocabulary, MaxCmdTokens)
    /\ env = NoEnv
    /\ jvm \in [vmFlags : VMFlagsOutcomes, props : PropsOutcomes, version : VersionOutcomes]
    /\ ret = NoParams
    /\ calls = <<>>
    /\ fallback = "none"
    /\ jvmVendor = "none"
    /\ live = NoParams
    /\ NothingElse

\* the return of ParseJVMParams and what it did on the way
Returns(r) ==
    /\ ret' = r.params
    /\ live' = r.live
    /\ fallback' = r.fallback
    /\ calls' = r.calls
    /\ jvmVendor' = r.vendor

CallParseJVMParams ==
    /\ pc = "call"
    /\ pc' = "done"
    /\ op' = "ParseJVMParams"
    /\ Returns(ParseJVMParams(cmdline, jvm))
    /\ UNCHANGED <<cmdline, env, jvm, history, occ, callers, clock, pressure>>

CallParseJVMParams_float ==
    /\ pc = "call"
    /\ pc' = "done"
    /\ op' = "ParseJVMParams_float"
    /\ ret' = ParseJVMParams_float(jvm)
    /\ calls' = <<"GetVMFlags">>
    /\ UNCHANGED <<cmdline, env, jvm, fallback, live, jvmVendor, history, occ, callers, clock, pressure>>

NextAttach ==
    \/ CallParseJVMParams
    \/ CallParseJVMParams_float

SpecAttach == InitAttach /\ [][NextAttach]_vars

(***************************************************************************)
(* The attach resolvers on a process whose JVM cannot be attached, and     *)
(* whose environ file is drawn with the command line                       *)
(***************************************************************************)
SpecAttachEnv == InitEnv /\ [][NextAttach]_vars

(***************************************************************************)
(* The GC classifier: one call of parseGCType on the fields of one flag    *)
(* text, for one vendor                                                    *)
(***************************************************************************)
\* the longest flag text drawn for the classifier, in flags
MaxGCFlags == 3

Vendors == {"Unknown", "HotSpot", "OpenJ9", "GraalVM"}

\* enable flags, disable flags, tuning flags of three collector families, a GC policy of
\* OpenJ9 and a system property whose value is the name of a policy
GCVocabulary ==
    { <<"-", "X", "X", ":", "+", "U", "s", "e", "G", "1", "G", "C">>, <<"-", "X", "X", ":", "+", "U", "s", "e", "S", "e", "r", "i", "a", "l", "G", "C">>, <<"-", "X", "X", ":", "+", "U", "s", "e", "P", "a", "r", "a", "l", "l", "e", "l", "G", "C">>,
      <<"-", "X", "X", ":", "-", "U", "s", "e", "P", "a", "r", "a", "l", "l", "e", "l", "G", "C">>,
      <<"-", "X", "X", ":", "P", "a", "r", "a", "l", "l", "e", "l", "G", "C", "T", "h", "r", "e", "a", "d", "s", "=", "4">>, <<"-", "X", "X", ":", "G", "1", "H", "e", "a", "p", "R", "e", "g", "i", "o", "n", "S", "i", "z", "e", "=", "1", "m">>, <<"-", "X", "X", ":", "C", "M", "S", "T", "r", "i", "g", "g", "e", "r", "R", "a", "t", "i", "o", "=", "7", "0">>,
      <<"-", "X", "g", "c", "p", "o", "l", "i", "c", "y", ":", "g", "e", "n", "c", "o", "n">>, <<"-", "D", "m", "o", "d", "e", "=", "b", "a", "l", "a", "n", "c", "e", "d">> }

InitGC ==
    /\ pc = "call"
    /\ op = "none"
    /\ cmdline = <<>>
    /\ env = NoEnv
    /\ jvm \in [vmFlags : { Answered(d) : d \in Blobs(GCVocabulary, MaxGCFlags) },
                props : {Failed}, version : {Failed}]
    /\ ret = NoParams
    /\ calls = <<>>
    /\ fallback = "none"
    /\ live = NoParams
    /\ NothingElse
    /\ jvmVendor \in Vendors

\* params.GCType = parseGCType(flags, vendor) of parseVMFlagsOutput
CallParseGCType ==
    /\ pc = "call"
    /\ pc' = "done"
    /\ op' = "parseGCType"
    /\ ret' = parseGCType(Fields(jvm.vmFlags.out), jvmVendor)
    /\ UNCHANGED <<cmdline, env, jvm, calls, fallback, live, jvmVendor, history, occ, callers, clock, pressure>>

NextGC == CallParseGCType

SpecGC == InitGC /\ [][NextGC]_vars

(***************************************************************************)
(* The vendor detectors: one call of detectJVMVendor on one text, or of    *)
(* detectJVMVendorWithSystemProperties on one JVM                          *)
(***************************************************************************)
\* the longest text drawn for a vendor detector, in words
MaxVendorWords == 3

\* words that identify the three vendor families, a word that identifies none, and a flag of
\* the HotSpot style
VendorVocabulary ==
    { <<"H", "o", "t", "S", "p", "o", "t">>, <<"E", "c", "l", "i", "p", "s", "e">>, <<"G", "r", "a", "a", "l", "V", "M">>, <<"O", "p", "e", "n", "J", "D", "K">>, <<"V", "M">>, <<"-", "X", "X", ":", "M", "a", "x", "H", "e", "a", "p", "S", "i", "z", "e", "=", "1">> }

VendorTexts == Blobs(VendorVocabulary, MaxVendorWords)

InitVendor ==
    /\ pc = "call"
    /\ op = "none"
    /\ cmdline = <<>>
    /\ env = NoEnv
    /\ jvm \in [vmFlags : { Answered(d) : d \in VendorTexts },
                props : { Failed, Answered(<<"j", "a", "v", "a", ".", "v", "m", ".", "n", "a", "m", "e", "=", "O", "p", "e", "n", "J", "D", "K", " ", "G", "r", "a", "a", "l", "V", "M">>), Answered(<<"j", "a", "v", "a", ".", "v", "e", "n", "d", "o", "r", "=", "A", "c", "m", "e">>) },
                version : { Failed, Answered(<<"E", "c", "l", "i", "p", "s", "e", " ", "O", "p", "e", "n", "J", "D", "K">>) }]
    /\ ret = NoParams
    /\ calls = <<>>
    /\ fallback = "none"
    /\ live = NoParams
    /\ NothingElse
    /\ jvmVendor = "none"

CallDetectJVMVendor ==
    /\ pc = "call"
    /\ pc' = "done"
    /\ op' = "detectJVMVendor"
    /\ jvmVendor' = detectJVMVendor(jvm.vmFlags.out)
    /\ UNCHANGED <<cmdline, env, jvm, ret, calls, fallback, live, history, occ, callers, clock, pressure>>

CallDetectJVMVendorWithSystemProperties ==
    /\ pc = "call"
    /\ pc' = "done"
    /\ op' = "detectJVMVendorWithSystemProperties"
    /\ jvmVendor' = detectJVMVendorWithSystemProperties(jvm).vendor
    /\ calls' = detectJVMVendorWithSystemProperties(jvm).calls
    /\ UNCHANGED <<cmdline, env, jvm, ret, fallback, live, history, occ, callers, clock, pressure>>

NextVendor ==
    \/ CallDetectJVMVendor
    \/ CallDetectJVMVendorWithSystemProperties

SpecVendor == InitVendor /\ [][NextVendor]_vars

(***************************************************************************)
(* One process that calls the string resolver and the fallback resolver    *)
(* several times, on inputs of its choice                                  *)
(***************************************************************************)
\* the number of invocations of one run
MaxInvocations == 3

RepeatCmdlines == { <<>>, <<"-", "X", "m", "x", "1", "k">>, <<"-", "X", "m", "s", "3", "k", " ", "-", "X", "X", ":", "+", "U", "s", "e", "G", "1", "G", "C">> }

RepeatEnvirons ==
    { NoEnv, [readable |-> TRUE, data |-> EnvironData(<<[set |-> TRUE, value |-> <<"-", "X", "m", "x", "2", "k", " ", "-", "X", "X", ":", "M", "a", "x", "R", "A", "M", "P", "e", "r", "c", "e", "n", "t", "a", "g", "e", "=", "5", "0">>], Unset, Unset, Unset>>)] }

InitRepeat ==
    /\ pc = "call"
    /\ op = "none"
    /\ cmdline = <<>>
    /\ env = NoEnv
    /\ jvm = NoJVM
    /\ ret = NoParams
    /\ calls = <<>>
    /\ fallback = "none"
    /\ jvmVendor = "none"
    /\ live = NoParams
    /\ NothingElse

\* what one invocation leaves behind for the caller to compare
Invocation(name, cmdl, e, r) == [op |-> name, cmdline |-> cmdl, env |-> e, ret |-> r]

InvokeParseJVMParamsFromString ==
    /\ pc = "call"
    /\ Len(history) < MaxInvocations
    /\ \E input \in RepeatCmdlines :
         /\ cmdline' = input
         /\ ret' = parseJVMParamsFromString(input)
         /\ history' = Append(history, Invocation("parseJVMParamsFromString", input, env, ret'))
    /\ op' = "parseJVMParamsFromString"
    /\ UNCHANGED <<pc, env, jvm, calls, fallback, live, jvmVendor, occ, callers, clock, pressure>>

InvokeParseJVMParams ==
    /\ pc = "call"
    /\ Len(history) < MaxInvocations
    /\ \E cmdl \in RepeatCmdlines, e \in RepeatEnvirons :
         /\ cmdline' = cmdl
         /\ env' = e
         /\ ret' = parseJVMParams(cmdl, e)
         /\ history' = Append(history, Invocation("parseJVMParams", cmdl, e, ret'))
    /\ op' = "parseJVMParams"
    /\ UNCHANGED <<pc, jvm, calls, fallback, live, jvmVendor, occ, callers, clock, pressure>>

NextRepeat ==
    \/ InvokeParseJVMParamsFromString
    \/ InvokeParseJVMParams

SpecRepeat == InitRepeat /\ [][NextRepeat]_vars

(***************************************************************************)
(* readEnviron on the environ file of one process                          *)
(***************************************************************************)
\* the number of records of the longest environ file drawn
MaxRecords == 3

\* records with a value, with an empty value, without "=", with an empty key, and a second
\* record of a key
EnvironRecords == { <<"A", "=", "1">>, <<"A", "=", "2">>, <<"B", "=">>, <<"n", "o", "v", "a", "l", "u", "e">>, <<"=", "v">>, <<"C", "=", "x", "=", "y">> }

\* the bytes of an environ file: every record is followed by the byte 0
RECURSIVE Terminated(_)
Terminated(records) ==
    IF records = <<>> THEN <<>> ELSE Head(records) \o <<NUL>> \o Terminated(Tail(records))

RecordFiles ==
    {NoEnv} \cup { [readable |-> TRUE, data |-> Terminated(records)] :
                     records \in UNION { [1..k -> EnvironRecords] : k \in 0..MaxRecords } }

InitEnviron ==
    /\ pc = "call"
    /\ op = "none"
    /\ cmdline = <<>>
    /\ env \in RecordFiles
    /\ jvm = NoJVM
    /\ ret = NoParams
    /\ calls = <<>>
    /\ fallback = "none"
    /\ jvmVendor = "none"
    /\ live = NoParams
    /\ NothingElse

CallReadEnviron ==
    /\ pc = "call"
    /\ pc' = "done"
    /\ op' = "readEnviron"
    /\ ret' = readEnviron(env)
    /\ UNCHANGED <<cmdline, env, jvm, calls, fallback, live, jvmVendor, history, occ, callers, clock, pressure>>

NextEnviron == CallReadEnviron

SpecEnviron == InitEnviron /\ [][NextEnviron]_vars

(***************************************************************************)
(* parseGCTypeFromCmdline on the arguments of one command line             *)
(***************************************************************************)
\* the number of arguments of the longest command line drawn
MaxGCArgs == 3

GCArgVocabulary ==
    { <<"j", "a", "v", "a">>, <<"-", "X", "m", "x", "2", "g">>, <<"-", "X", "X", ":", "+", "U", "s", "e", "P", "a", "r", "a", "l", "l", "e", "l", "G", "C">>, <<"-", "X", "X", ":", "+", "U", "s", "e", "G", "1", "G", "C">>, <<"-", "X", "X", ":", "+", "U", "s", "e", "S", "e", "r", "i", "a", "l", "G", "C">>, <<"-", "X", "g", "c", "p", "o", "l", "i", "c", "y", ":", "g", "e", "n", "c", "o", "n">>, <<"-", "X", "X", ":", "-", "U", "s", "e", "G", "1", "G", "C">> }

InitGCArgs ==
    /\ pc = "call"
    /\ op = "none"
    /\ cmdline \in Blobs(GCArgVocabulary, MaxGCArgs)
    /\ env = NoEnv
    /\ jvm = NoJVM
    /\ ret = NoParams
    /\ calls = <<>>
    /\ fallback = "none"
    /\ jvmVendor = "none"
    /\ live = NoParams
    /\ NothingElse

CallParseGCTypeFromCmdline ==
    /\ pc = "call"
    /\ pc' = "done"
    /\ op' = "parseGCTypeFromCmdline"
    /\ ret' = parseGCTypeFromCmdline(Fields(cmdline))
    /\ UNCHANGED <<cmdline, env, jvm, calls, fallback, live, jvmVendor, history, occ, callers, clock, pressure>>

NextGCArgs == CallParseGCTypeFromCmdline

SpecGCArgs == InitGCArgs /\ [][NextGCArgs]_vars

(***************************************************************************)
(* parseSize on one size string, and parseFromCmdline on -Xmx with it      *)
(***************************************************************************)
\* the length of the longest size string drawn, in characters
MaxSizeLen == 3

SizeAlphabet == {"2", "0", "k", "G", "b", "x"}

SizeStrings == UNION { [1..n -> SizeAlphabet] : n \in 0..MaxSizeLen }

InitSize ==
    /\ pc = "call"
    /\ op = "none"
    /\ cmdline \in SizeStrings
    /\ env = NoEnv
    /\ jvm = NoJVM
    /\ ret = NoParams
    /\ calls = <<>>
    /\ fallback = "none"
    /\ jvmVendor = "none"
    /\ live = NoParams
    /\ NothingElse

CallParseSize ==
    /\ pc = "call"
    /\ pc' = "done"
    /\ op' = "parseSize"
    /\ ret' = parseSize(cmdline)
    /\ UNCHANGED <<cmdline, env, jvm, calls, fallback, live, jvmVendor, history, occ, callers, clock, pressure>>

\* parseFromCmdline on the command line "java -Xmx<size>"
CallParseFromCmdline ==
    /\ pc = "call"
    /\ pc' = "done"
    /\ op' = "parseFromCmdline"
    /\ ret' = parseFromCmdline(<<"j", "a", "v", "a", " ">> \o sXmx \o cmdline)
    /\ UNCHANGED <<cmdline, env, jvm, calls, fallback, live, jvmVendor, history, occ, callers, clock, pressure>>

NextSize ==
    \/ CallParseSize
    \/ CallParseFromCmdline

SpecSize == InitSize /\ [][NextSize]_vars

(***************************************************************************)
(* The fraction-aware parseVMFlagsOutput on one live dump                  *)
(***************************************************************************)
\* the number of flags of the longest dump drawn with fraction flags
MaxFractionFlags == 3

FractionVocabulary ==
    { <<"-", "X", "X", ":", "M", "a", "x", "R", "A", "M", "P", "e", "r", "c", "e", "n", "t", "a", "g", "e", "=", "7", "5", ".", "0">>, <<"-", "X", "X", ":", "M", "a", "x", "R", "A", "M", "P", "e", "r", "c", "e", "n", "t", "a", "g", "e", "=", "5", "0">>, <<"-", "X", "X", ":", "M", "a", "x", "R", "A", "M", "F", "r", "a", "c", "t", "i", "o", "n", "=", "4">>, <<"-", "X", "X", ":", "M", "a", "x", "R", "A", "M", "F", "r", "a", "c", "t", "i", "o", "n", "=", "3">>,
      <<"-", "X", "X", ":", "M", "a", "x", "R", "A", "M", "F", "r", "a", "c", "t", "i", "o", "n", "=", "0">>, <<"-", "X", "X", ":", "M", "a", "x", "R", "A", "M", "F", "r", "a", "c", "t", "i", "o", "n", "=", "x">>, <<"-", "X", "X", ":", "M", "a", "x", "R", "A", "M", "F", "r", "a", "c", "t", "i", "o", "n", "=", "-", "2">>,
      <<"-", "X", "X", ":", "I", "n", "i", "t", "i", "a", "l", "R", "A", "M", "P", "e", "r", "c", "e", "n", "t", "a", "g", "e", "=", "2", "5", ".", "0">>, <<"-", "X", "X", ":", "I", "n", "i", "t", "i", "a", "l", "R", "A", "M", "F", "r", "a", "c", "t", "i", "o", "n", "=", "8">>,
      <<"-", "X", "X", ":", "M", "i", "n", "R", "A", "M", "P", "e", "r", "c", "e", "n", "t", "a", "g", "e", "=", "4", "0">>, <<"-", "X", "X", ":", "M", "i", "n", "R", "A", "M", "F", "r", "a", "c", "t", "i", "o", "n", "=", "2">> }

InitFraction ==
    /\ pc = "call"
    /\ op = "none"
    /\ cmdline = <<>>
    /\ env = NoEnv
    /\ jvm \in { [vmFlags |-> Answered(text), props |-> Failed, version |-> Failed] :
                   text \in Blobs(FractionVocabulary, MaxFractionFlags) }
    /\ ret = NoParams
    /\ calls = <<>>
    /\ fallback = "none"
    /\ jvmVendor = "none"
    /\ live = NoParams
    /\ NothingElse

CallParseVMFlagsOutput_fraction ==
    /\ pc = "call"
    /\ pc' = "done"
    /\ op' = "parseVMFlagsOutput_fraction"
    /\ ret' = parseVMFlagsOutput_fraction(jvm.vmFlags.out)
    /\ UNCHANGED <<cmdline, env, jvm, calls, fallback, live, jvmVendor, history, occ, callers, clock, pressure>>

NextFraction == CallParseVMFlagsOutput_fraction

SpecFraction == InitFraction /\ [][NextFraction]_vars

(***************************************************************************)
(* parseGCType of HotSpot on dumps that hold flags which disable a         *)
(* collector                                                               *)
(***************************************************************************)
\* the number of flags of the longest dump drawn with disable flags
MaxDisableFlags == 3

\* the five disable flags, one enable flag and one flag that names no collector
DisableVocabulary ==
    { <<"-", "X", "X", ":", "-", "U", "s", "e", "G", "1", "G", "C">>, <<"-", "X", "X", ":", "-", "U", "s", "e", "P", "a", "r", "a", "l", "l", "e", "l", "G", "C">>, <<"-", "X", "X", ":", "-", "U", "s", "e", "P", "a", "r", "a", "l", "l", "e", "l", "O", "l", "d", "G", "C">>, <<"-", "X", "X", ":", "-", "U", "s", "e", "C", "o", "n", "c", "M", "a", "r", "k", "S", "w", "e", "e", "p", "G", "C">>,
      <<"-", "X", "X", ":", "-", "U", "s", "e", "S", "e", "r", "i", "a", "l", "G", "C">>, <<"-", "X", "X", ":", "+", "U", "s", "e", "S", "e", "r", "i", "a", "l", "G", "C">>, <<"-", "X", "X", ":", "M", "a", "x", "H", "e", "a", "p", "S", "i", "z", "e", "=", "1">> }

InitDisable ==
    /\ pc = "call"
    /\ op = "none"
    /\ cmdline = <<>>
    /\ env = NoEnv
    /\ jvm \in [vmFlags : { Answered(d) : d \in Blobs(DisableVocabulary, MaxDisableFlags) },
                props : {Failed}, version : {Failed}]
    /\ ret = NoParams
    /\ calls = <<>>
    /\ fallback = "none"
    /\ live = NoParams
    /\ NothingElse
    /\ jvmVendor = "HotSpot"

SpecDisable == InitDisable /\ [][NextGC]_vars

(***************************************************************************)
(* One reading of the memory pressure, given to both classifiers           *)
(***************************************************************************)
\* averages on both sides of every threshold of the classifiers; the memory file reports for
\* each window a full average that is not above the some average
PressureReadings ==
    { p \in [Some : [Avg10 : {0, 500, 1000, 1001, 2001, 5001}, Avg60 : {0, 500, 501}, Avg300 : {0, 100, 101}],
             Full : [Avg10 : {0, 100, 101, 1001}, Avg60 : {0}, Avg300 : {0}]] :
        p.Full.Avg10 <= p.Some.Avg10 }

InitPressure ==
    /\ pc = "call"
    /\ op = "none"
    /\ cmdline = <<>>
    /\ env = NoEnv
    /\ jvm = NoJVM
    /\ ret = NoParams
    /\ calls = <<>>
    /\ fallback = "none"
    /\ jvmVendor = "none"
    /\ live = NoParams
    /\ history = <<>>
    /\ occ = [recentOOMs |-> NoOOMs, mutex |-> 0]
    /\ callers = [t \in Threads |-> Outside]
    /\ clock = 0
    /\ pressure \in PressureReadings

Called(name) == \E i \in DOMAIN history : history[i].op = name

CallGetMemoryPressureLevel ==
    /\ pc = "call"
    /\ ~Called("GetMemoryPressureLevel")
    /\ op' = "GetMemoryPressureLevel"
    /\ ret' = GetMemoryPressureLevel(pressure)
    /\ history' = Append(history, Invocation("GetMemoryPressureLevel", <<>>, NoEnv, ret'))
    /\ UNCHANGED <<pc, cmdline, env, jvm, calls, fallback, live, jvmVendor, occ, callers, clock, pressure>>

CallIsMemoryPressureHigh ==
    /\ pc = "call"
    /\ ~Called("IsMemoryPressureHigh")
    /\ op' = "IsMemoryPressureHigh"
    /\ ret' = IsMemoryPressureHigh(pressure)
    /\ history' = Append(history, Invocation("IsMemoryPressureHigh", <<>>, NoEnv, ret'))
    /\ UNCHANGED <<pc, cmdline, env, jvm, calls, fallback, live, jvmVendor, occ, callers, clock, pressure>>

NextPressure ==
    \/ CallGetMemoryPressureLevel
    \/ CallIsMemoryPressureHigh

SpecPressure == InitPressure /\ [][NextPressure]_vars

(***************************************************************************)
(* Threads that call RecordOOM on one collector, and the clock             *)
(***************************************************************************)
\* the last reading of the clock
MaxClock == 2

\* the pids given to RecordOOM: the zero value, and one more pid than the collector keeps
OOMPids == 0..(KeptOOMs + 1)

InitOOM ==
    /\ pc = "call"
    /\ op = "none"
    /\ cmdline = <<>>
    /\ env = NoEnv
    /\ jvm = NoJVM
    /\ ret = NoParams
    /\ calls = <<>>
    /\ fallback = "none"
    /\ jvmVendor = "none"
    /\ live = NoParams
    /\ history = <<>>
    /\ occ = [recentOOMs |-> NoOOMs, mutex |-> 0]
    /\ callers = [t \in Threads |-> Outside]
    /\ clock = 1
    /\ pressure = NoPressure

\* time passes: time.Now() never goes back and may give the same reading twice
Tick ==
    /\ clock < MaxClock
    /\ clock' = clock + 1
    /\ UNCHANGED <<pc, op, cmdline, env, jvm, ret, calls, fallback, live, jvmVendor, history, occ, callers, pressure>>

\* a thread calls RecordOOM(pid, ...) and waits for the mutex
CallRecordOOM(t) ==
    /\ callers[t].pc = "outside"
    /\ \E pid \in OOMPids : callers' = [callers EXCEPT ![t] = [pc |-> "Lock", pid |-> pid, Timestamp |-> 0]]
    /\ UNCHANGED <<pc, op, cmdline, env, jvm, ret, calls, fallback, live, jvmVendor, history, occ, clock, pressure>>

\* occ.mutex.Lock() and the context with Timestamp: time.Now()
Lock(t) ==
    /\ callers[t].pc = "Lock"
    /\ occ.mutex = 0
    /\ occ' = [occ EXCEPT !.mutex = t]
    /\ callers' = [callers EXCEPT ![t].pc = "store", ![t].Timestamp = clock]
    /\ UNCHANGED <<pc, op, cmdline, env, jvm, ret, calls, fallback, live, jvmVendor, history, clock, pressure>>

\* occ.recentOOMs[pid] = context
Store(t) ==
    /\ callers[t].pc = "store"
    /\ occ' = [occ EXCEPT !.recentOOMs = WithOOM(@, callers[t].pid, callers[t].Timestamp)]
    /\ callers' = [callers EXCEPT ![t].pc = "cleanup"]
    /\ UNCHANGED <<pc, op, cmdline, env, jvm, ret, calls, fallback, live, jvmVendor, history, clock, pressure>>

\* the clean-up, the deferred Unlock and the return; history keeps the pid the clean-up deleted,
\* whether it had an entry, and the pids whose entries had the earliest timestamp
CleanUp(t) ==
    /\ callers[t].pc = "cleanup"
    /\ IF Cardinality(DOMAIN occ.recentOOMs) > KeptOOMs
       THEN \E oldestPid \in OldestPids(occ.recentOOMs, clock) :
              /\ occ' = [recentOOMs |-> WithoutOOM(occ.recentOOMs, oldestPid), mutex |-> 0]
              /\ history' = << [op |-> "delete", oldestPid |-> oldestPid,
                                 deleted |-> oldestPid \in DOMAIN occ.recentOOMs,
                                 earliest |-> { p \in DOMAIN occ.recentOOMs : \A q \in DOMAIN occ.recentOOMs : occ.recentOOMs[p] <= occ.recentOOMs[q] }] >>
       ELSE /\ occ' = [occ EXCEPT !.mutex = 0]
            /\ UNCHANGED history
    /\ op' = "RecordOOM"
    /\ ret' = [pid |-> callers[t].pid, Timestamp |-> callers[t].Timestamp]
    /\ callers' = [callers EXCEPT ![t] = Outside]
    /\ UNCHANGED <<pc, cmdline, env, jvm, calls, fallback, live, jvmVendor, clock, pressure>>

NextOOM ==
    \/ Tick
    \/ \E t \in Threads : CallRecordOOM(t)
    \/ \E t \in Threads : Lock(t)
    \/ \E t \in Threads : Store(t)
    \/ \E t \in Threads : CleanUp(t)

SpecOOM == InitOOM /\ [][NextOOM]_vars

(***************************************************************************)
(* Reading an input flag by flag, independently of the scan of the code    *)
(***************************************************************************)
StringResolvers == {"parseJVMParamsFromString", "parseJVMParamsFromString_part000"}

AtWordStart(s, i) == i = 1 \/ IsSpace(s[i - 1])

\* a flag spelled prefix followed by at least one digit begins a word at index i
OccursAt(s, i, prefix) ==
    AtWordStart(s, i) /\ HasPrefixAt(s, i, prefix) /\ i + Len(prefix) <= Len(s) /\ IsDigit(s[i + Len(prefix)])

Occurrences(s, prefixes) == { i \in 1..Len(s) : \E p \in prefixes : OccursAt(s, i, p) }

Greatest(S) == CHOOSE x \in S : \A y \in S : y <= x

MaxHeapSpellings == {sXmx, XXEq(sMaxHeapSize)}

InitialHeapSpellings == {sXms, XXEq(sMinHeapSize)}

UnitFactor(c) ==
    CASE c \in {"k", "K"} -> 1024
      [] c \in {"m", "M"} -> 1048576
      [] c \in {"g", "G"} -> 1073741824
      [] OTHER -> 1

\* the byte count written by the size literal (digits and an optional unit) of the flag at i
BytesAt(s, i, prefixes) ==
    LET p == CHOOSE q \in prefixes : OccursAt(s, i, q)
        v == i + Len(p)
        e == DigitsEnd(s, v)
    IN  Atoi(SubSeq(s, v, e - 1)) * (IF e <= Len(s) THEN UnitFactor(s[e]) ELSE 1)

\* the hundredths written by the literal of the percentage flag at i
HundredthsAt(s, i, prefix) ==
    LET v == i + Len(prefix)
        d == DigitsEnd(s, v)
        hasFrac == d + 1 <= Len(s) /\ s[d] = "." /\ IsDigit(s[d + 1])
        f == IF hasFrac THEN SubSeq(s, d + 1, DigitsEnd(s, d + 1) - 1) ELSE <<>>
        f2 == IF Len(f) >= 2 THEN SubSeq(f, 1, 2) ELSE f \o [k \in 1..(2 - Len(f)) |-> "0"]
    IN  100 * Atoi(SubSeq(s, v, d - 1)) + Atoi(f2)

MaxHeapOcc == Occurrences(cmdline, MaxHeapSpellings)

MaxPctOcc == Occurrences(cmdline, {XXEq(sMaxRAMPercentage)})

InitialHeapOcc == Occurrences(cmdline, InitialHeapSpellings)

InitialPctOcc == Occurrences(cmdline, {XXEq(sInitialRAMPercentage)})

Resolved == pc = "done" /\ op \in StringResolvers

\* C1: when the input holds no MaxRAMPercentage flag, the maximum heap size is the value of the
\* rightmost maximum-heap occurrence, whichever of -Xmx and -XX:MaxHeapSize= spells it; for an
\* input of two such occurrences the input with the two exchanged resolves to the other value.
C1_RightmostMaxHeapWins ==
    (Resolved /\ MaxHeapOcc # {} /\ ~Contains(cmdline, XXEq(sMaxRAMPercentage)))
        => /\ ret.JavaMaxHeapSize = BytesAt(cmdline, Greatest(MaxHeapOcc), MaxHeapSpellings)
           /\ LET f == Fields(cmdline)
                  swapped == Join(<<f[2], f[1]>>, <<" ">>)
              IN  (Len(f) = 2 /\ Cardinality(MaxHeapOcc) = 2)
                      => /\ parseJVMParamsFromString(swapped).JavaMaxHeapSize
                               = BytesAt(cmdline, 1, MaxHeapSpellings)
                         /\ parseJVMParamsFromString_part000(swapped).JavaMaxHeapSize
                               = BytesAt(cmdline, 1, MaxHeapSpellings)

\* -Xmx1k followed by -XX:MaxHeapSize=2m resolves to 2m
C1_Witness ==
    /\ pc = "done" /\ op = "parseJVMParamsFromString"
    /\ Fields(cmdline) = <<sXmx \o <<"1", "k">>, XXEq(sMaxHeapSize) \o <<"2", "m">> >>
    /\ ret.JavaMaxHeapSize = 2097152

\* C2: when the input holds both an absolute maximum-heap flag and a MaxRAMPercentage flag, the
\* maximum heap size is -1 exactly when more than one absolute occurrence is present and the
\* percentage flag lies to the right of all of them; otherwise it is the value of the rightmost
\* absolute occurrence.
C2_PercentageWinsOnlyAfterSeveralAbsolutes ==
    (pc = "done" /\ op = "parseJVMParamsFromString" /\ MaxHeapOcc # {} /\ MaxPctOcc # {})
        => ret.JavaMaxHeapSize =
               IF Cardinality(MaxHeapOcc) > 1 /\ Greatest(MaxPctOcc) > Greatest(MaxHeapOcc)
               THEN -1
               ELSE BytesAt(cmdline, Greatest(MaxHeapOcc), MaxHeapSpellings)

\* the same statement for the revision of the resolver that compares positions
C2_PercentageWinsOnlyAfterSeveralAbsolutes_part000 ==
    (pc = "done" /\ op = "parseJVMParamsFromString_part000" /\ MaxHeapOcc # {} /\ MaxPctOcc # {})
        => ret.JavaMaxHeapSize =
               IF Cardinality(MaxHeapOcc) > 1 /\ Greatest(MaxPctOcc) > Greatest(MaxHeapOcc)
               THEN -1
               ELSE BytesAt(cmdline, Greatest(MaxHeapOcc), MaxHeapSpellings)

\* C3: when the input holds both an absolute initial-heap flag and an InitialRAMPercentage flag,
\* the initial heap size is the value of the rightmost absolute occurrence, never -1, and the
\* percentage is still reported.
C3_AbsoluteInitialHeapWins ==
    (pc = "done" /\ op = "parseJVMParamsFromString" /\ InitialHeapOcc # {} /\ InitialPctOcc # {})
        => /\ ret.JavaInitialHeapSize = BytesAt(cmdline, Greatest(InitialHeapOcc), InitialHeapSpellings)
           /\ ret.JavaInitialHeapSize # -1
           /\ ret.JavaInitialHeapAsPercentage
                  = HundredthsAt(cmdline, Greatest(InitialPctOcc), XXEq(sInitialRAMPercentage))

\* the same statement for the revision of the resolver that compares positions
C3_AbsoluteInitialHeapWins_part000 ==
    (pc = "done" /\ op = "parseJVMParamsFromString_part000" /\ InitialHeapOcc # {} /\ InitialPctOcc # {})
        => /\ ret.JavaInitialHeapSize = BytesAt(cmdline, Greatest(InitialHeapOcc), InitialHeapSpellings)
           /\ ret.JavaInitialHeapSize # -1
           /\ ret.JavaInitialHeapAsPercentage
                  = HundredthsAt(cmdline, Greatest(InitialPctOcc), XXEq(sInitialRAMPercentage))

\* C4: in every record returned by a resolver entry point, a size field equal to -1 implies that
\* the percentage field of the same kind is greater than 0.
C4_SentinelImpliesPositivePercentage ==
    (pc = "done" /\ op = "ParseJVMParams_float")
        => /\ (ret.JavaMaxHeapSize = -1 => ret.JavaMaxHeapAsPercentage > 0)
           /\ (ret.JavaInitialHeapSize = -1 => ret.JavaInitialHeapAsPercentage > 0)

\* the same statement for the two revisions of the string resolver
C4_SentinelImpliesPositivePercentage_string ==
    Resolved
        => /\ (ret.JavaMaxHeapSize = -1 => ret.JavaMaxHeapAsPercentage > 0)
           /\ (ret.JavaInitialHeapSize = -1 => ret.JavaInitialHeapAsPercentage > 0)

InitialHeapSpellings3 == {sXms, XXEq(sMinHeapSize), XXEq(sInitialHeapSize)}

InitialHeapOcc3 == Occurrences(cmdline, InitialHeapSpellings3)

MaxPctRightmost == HundredthsAt(cmdline, Greatest(MaxPctOcc), XXEq(sMaxRAMPercentage))

InitialPctRightmost == HundredthsAt(cmdline, Greatest(InitialPctOcc), XXEq(sInitialRAMPercentage))

\* C5 as stated: when a percentage flag is present and no absolute flag of that kind is present,
\* the size field is -1 and the percentage field holds the value of the rightmost percentage flag
\* of that kind.
C5_PercentageOnly_AsStated ==
    Resolved =>
        /\ (MaxPctOcc # {} /\ MaxHeapOcc = {})
               => (ret.JavaMaxHeapSize = -1 /\ ret.JavaMaxHeapAsPercentage = MaxPctRightmost)
        /\ (InitialPctOcc # {} /\ InitialHeapOcc3 = {})
               => (ret.JavaInitialHeapSize = -1 /\ ret.JavaInitialHeapAsPercentage = InitialPctRightmost)

\* C5: when the rightmost percentage flag of a kind carries a value greater than 0 and no absolute
\* flag of that kind is present, the size field is -1 and the percentage field holds that value;
\* when that value is 0 the size field and the percentage field are both 0.
C5_PercentageOnly ==
    Resolved =>
        /\ (MaxPctOcc # {} /\ MaxHeapOcc = {})
               => /\ ret.JavaMaxHeapAsPercentage = MaxPctRightmost
                  /\ ret.JavaMaxHeapSize = IF MaxPctRightmost > 0 THEN -1 ELSE 0
        /\ (InitialPctOcc # {} /\ InitialHeapOcc3 = {})
               => /\ ret.JavaInitialHeapAsPercentage = InitialPctRightmost
                  /\ ret.JavaInitialHeapSize = IF InitialPctRightmost > 0 THEN -1 ELSE 0

\* -XX:MaxRAMPercentage=0 followed by -XX:MaxRAMPercentage=50.5 resolves to -1 and 50.5
C5_Witness ==
    /\ pc = "done" /\ op = "parseJVMParamsFromString"
    /\ MaxHeapOcc = {} /\ Cardinality(MaxPctOcc) = 2
    /\ HundredthsAt(cmdline, 1, XXEq(sMaxRAMPercentage)) = 0
    /\ ret.JavaMaxHeapSize = -1 /\ ret.JavaMaxHeapAsPercentage = 5050

\* C6: the initial heap kind pools -Xms, -XX:MinHeapSize= and -XX:InitialHeapSize=; absent an
\* InitialRAMPercentage flag the initial heap size is the value of the rightmost occurrence among
\* all three.
C6_ThreeInitialSpellingsPooled ==
    (Resolved /\ InitialHeapOcc3 # {} /\ InitialPctOcc = {})
        => ret.JavaInitialHeapSize = BytesAt(cmdline, Greatest(InitialHeapOcc3), InitialHeapSpellings3)

\* the sizes, in kilobytes, carried by the flags of the given spelling in a text
TagsIn(text, prefix) ==
    { DigitVal(text[i + Len(prefix)]) :
          i \in { j \in 1..(Len(text) - Len(prefix)) : HasPrefixAt(text, j, prefix) } }

\* the sources (1 to 4 the variables in the order of the list, 5 the command line) that hold a
\* flag of the given spelling: the flags of source n carry the size n
SourcesWith(prefix) == TagsIn(env.data, prefix) \cup TagsIn(cmdline, prefix)

Attached == pc = "done" /\ op = "ParseJVMParams" /\ ~jvm.vmFlags.err

\* C8: after a successful attach, every field among max heap, initial heap, max-heap percentage
\* and initial-heap percentage that the live-dump pass set to a non-empty value keeps that value
\* in the returned record.
C8_LiveValuesKept ==
    Attached =>
        \A f \in {"JavaMaxHeapSize", "JavaInitialHeapSize",
                  "JavaMaxHeapAsPercentage", "JavaInitialHeapAsPercentage"} :
            live[f] # <<>> => ret[f] = live[f]

\* C9: after a successful attach, every heap size that the live dump left unset and that the
\* command line specifies is filled from the command line in the returned record, also when the
\* live dump gave the other heap size.
C9_UnsetFieldsFilled ==
    Attached =>
        \A f \in {"JavaMaxHeapSize", "JavaInitialHeapSize"} :
            (live[f] = <<>> /\ parseFromCmdline(cmdline)[f] # <<>>)
                => ret[f] = parseFromCmdline(cmdline)[f]

\* C10: after a successful attach the command line is consulted only when the live dump gave no
\* max-heap and no initial-heap signal of any kind, absolute or percentage; a live dump with only
\* a percentage is sufficient.
C10_PercentageOnlyDumpSuffices ==
    Attached =>
        (fallback = "merged"
             => /\ live.JavaMaxHeapSize = <<>> /\ live.JavaInitialHeapSize = <<>>
                /\ live.JavaMaxHeapAsPercentage = <<>> /\ live.JavaInitialHeapAsPercentage = <<>>)

\* C11: after a successful attach, when the live dump's GC classification is "Unknown" and the
\* command line names a known collector, the returned GCType is the command line's collector,
\* whether or not the live dump supplied heap sizes.
C11_UnknownGCTakenFromCmdline ==
    Attached =>
        ((live.GCType = "Unknown" /\ parseFromCmdline(cmdline).GCType # "Unknown")
            => ret.GCType = parseFromCmdline(cmdline).GCType)

AttachFailed == pc = "done" /\ op = "ParseJVMParams" /\ jvm.vmFlags.err

\* C12: when the attach fails, ParseJVMParams resolves from the four environment variables as
\* well as the command line: a heap size given by a variable and by no flag of the command line
\* appears in the returned record.
C12_EnvironmentResolvedOnAttachFailure ==
    AttachFailed =>
        /\ (TagsIn(env.data, sXmx) # {} /\ TagsIn(cmdline, sXmx) = {}) => ret.JavaMaxHeapSize # <<>>
        /\ (TagsIn(env.data, sXms) # {} /\ TagsIn(cmdline, sXms) = {}) => ret.JavaInitialHeapSize # <<>>

\* C13: whatever the transport answered (an error, an empty dump, a dump with flags),
\* ParseJVMParams returns a record whose GCType is the name of a collector or an unknown marker,
\* never the empty string.
C13_GCTypeNeverEmpty ==
    (pc = "done" /\ op = "ParseJVMParams") => ret.GCType # ""

\* C14: when the first attach attempt of a ParseJVMParams invocation fails, GetVMFlags is the
\* only transport call of the invocation (no second dial, no request for the system properties or
\* the version), and the record returned is the one the command-line fallback gives.
C14_NoTransportCallAfterFailedAttach ==
    AttachFailed =>
        /\ calls = <<"GetVMFlags">>
        /\ fallback = "attach-failed"
        /\ ret = parseFromCmdline(cmdline)

\* the attach failed on a JVM whose system properties and version would have answered, and the
\* command line gave the heap size
C14_Witness ==
    /\ AttachFailed
    /\ ~jvm.props.err /\ ~jvm.version.err
    /\ calls = <<"GetVMFlags">>
    /\ ret.JavaMaxHeapSize # <<>>

ClassifiedBy(vendors) == pc = "done" /\ op = "parseGCType" /\ jvmVendor \in vendors

\* the collectors that the flag at index i of flags enables explicitly, as -XX:+Use<Name>GC
EnabledAt(flags, i) == { k \in 1..Len(gcFlags) : flags[i] = sXX \o gcFlags[k].flag }

EnableFlags(flags) == { i \in 1..Len(flags) : EnabledAt(flags, i) # {} }

\* the collector is the one that the last of the enable flags, at the indices enables, names
LastEnableFlagWins(flags, enables) ==
    enables # {} => \A k \in EnabledAt(flags, Greatest(enables)) : ret = gcFlags[k].gcType

LastOfFlags(flags) == LastEnableFlagWins(flags, EnableFlags(flags))

\* C15: for the HotSpot, GraalVM and Unknown vendors, when the flags hold at least one explicit
\* enable flag -XX:+Use<Name>GC, the GC type is the collector named by the last of them in
\* sequence order, whatever disable flags and tuning flags stand before or after it.
C15_LastEnableFlagWins ==
    ClassifiedBy({"HotSpot", "GraalVM", "Unknown"}) => LastOfFlags(Fields(jvm.vmFlags.out))

TwoEnabledThenTuning(flags) ==
    /\ EnableFlags(flags) = {1, 2}
    /\ EnabledAt(flags, 1) # EnabledAt(flags, 2)
    /\ Len(flags) = 3
    /\ Contains(flags[3], <<"P", "a", "r", "a", "l", "l", "e", "l">>)

\* two different collectors are enabled, a disable or tuning flag follows, the second is resolved
C15_Witness ==
    /\ ClassifiedBy({"GraalVM"})
    /\ ret = "SerialGC"
    /\ TwoEnabledThenTuning(Fields(jvm.vmFlags.out))

\* some flag holds the token and is not the explicit disable flag -XX:-Use<disabled>
SomeFlagWith(flags, token, disabled) ==
    \E i \in 1..Len(flags) :
        Contains(flags[i], token) /\ flags[i] # sXX \o <<"-", "U", "s", "e">> \o disabled

\* the collector inferred from the categories that occur among the flags, whatever their order
InferredByCategory(flags) ==
    IF SomeFlagWith(flags, <<"G", "1">>, <<>>) THEN "G1GC"
    ELSE IF SomeFlagWith(flags, <<"P", "a", "r", "a", "l", "l", "e", "l">>, <<"P", "a", "r", "a", "l", "l", "e", "l", "G", "C">>) THEN "ParallelGC"
    ELSE IF SomeFlagWith(flags, <<"C", "o", "n", "c", "M", "a", "r", "k", "S", "w", "e", "e", "p">>, <<>>) \/ SomeFlagWith(flags, <<"C", "M", "S">>, <<>>) THEN "ConcMarkSweepGC"
    ELSE IF SomeFlagWith(flags, <<"S", "e", "r", "i", "a", "l">>, <<"S", "e", "r", "i", "a", "l", "G", "C">>) THEN "SerialGC"
    ELSE "Unknown"

InferredWhenNoneEnabled(flags) == EnableFlags(flags) = {} => ret = InferredByCategory(flags)

\* C16: when no explicit enable flag is present, the inferred GC type depends only on the
\* categories that occur among the flags and not on their order: G1GC if a flag holds a G1
\* token, else ParallelGC if a flag holds a Parallel token and is not an explicit disable, else
\* ConcMarkSweepGC if a flag holds ConcMarkSweep or CMS, else SerialGC if a flag holds a Serial
\* token and is not an explicit disable, else Unknown.
C16_InferenceByCategory ==
    ClassifiedBy({"HotSpot", "GraalVM", "Unknown"}) => InferredWhenNoneEnabled(Fields(jvm.vmFlags.out))

sXgcpolicy == <<"-", "X", "g", "c", "p", "o", "l", "i", "c", "y", ":">>

\* the names the flags -Xgcpolicy:<name> give
PolicyNames(flags) ==
    { TrimPrefix(flags[i], sXgcpolicy) : i \in { j \in 1..Len(flags) : HasPrefix(flags[j], sXgcpolicy) } }

PolicyGC(name) ==
    CASE name = <<"g", "e", "n", "c", "o", "n">> -> "Generational Concurrent (OpenJ9)"
      [] name = <<"o", "p", "t", "t", "h", "r", "u", "p", "u", "t">> -> "Throughput (OpenJ9)"
      [] name = <<"o", "p", "t", "a", "v", "g", "p", "a", "u", "s", "e">> -> "Average Pause (OpenJ9)"
      [] name = <<"b", "a", "l", "a", "n", "c", "e", "d">> -> "Balanced (OpenJ9)"
      [] OTHER -> "Unknown (OpenJ9)"

ClassifiedByPolicy(names) ==
    /\ ret # "Unknown"
    /\ names = {} => ret = "Unknown (OpenJ9)"
    /\ names # {} => ret \in { PolicyGC(n) : n \in names }

\* C17: for the OpenJ9 vendor the GC type is determined only by the flags -Xgcpolicy:<name>
\* with name among gencon, optthruput, optavgpause, balanced: it is the policy of one of these
\* flags, and a flag sequence without a -Xgcpolicy flag is classified "Unknown (OpenJ9)", which
\* is not the "Unknown" of HotSpot.
C17_OnlyGcpolicyFlagsClassify ==
    ClassifiedBy({"OpenJ9"}) => ClassifiedByPolicy(PolicyNames(Fields(jvm.vmFlags.out)))

\* the vendor a source signals, "" when the source failed or names no known vendor
SignalOfProperties == IF jvm.props.err THEN "" ELSE vendorOfProperties(jvm.props.out)

SignalOfVersion ==
    IF jvm.version.err \/ vendorOfVersion(jvm.version.out) = "Unknown" THEN ""
    ELSE vendorOfVersion(jvm.version.out)

\* C18: the vendor ParseJVMParams uses is the first known vendor in the order system properties,
\* version string, live-flags text; a failure to obtain the system properties does not keep the
\* version string from being consulted, and the vendor is Unknown only when none of the three
\* sources gives a signal.
C18_VendorTrustOrder ==
    Attached =>
        jvmVendor = IF SignalOfProperties # "" THEN SignalOfProperties
                    ELSE IF SignalOfVersion # "" THEN SignalOfVersion
                    ELSE detectJVMVendor(jvm.vmFlags.out)

\* the identifying substrings of the three vendor families, in lower case
FamilyWords ==
    [OpenJ9 |-> { <<"o", "p", "e", "n", "j", "9">>, <<"e", "c", "l", "i", "p", "s", "e">>, <<"i", "b", "m">> },
     GraalVM |-> { <<"g", "r", "a", "a", "l", "v", "m">>, <<"g", "r", "a", "a", "l">> },
     HotSpot |-> { <<"h", "o", "t", "s", "p", "o", "t">>, <<"o", "p", "e", "n", "j", "d", "k">>, <<"o", "r", "a", "c", "l", "e">> }]

\* the families of which text holds an identifying substring
FamiliesIn(text) == { f \in DOMAIN FamilyWords : \E w \in FamilyWords[f] : Contains(ToLower(text), w) }

\* C19: when the text examined by vendor detection holds the identifying substrings of more
\* than one vendor family, the detected vendor is Unknown.
C19_AmbiguousTextIsUnknown ==
    /\ (pc = "done" /\ op = "detectJVMVendor" /\ Cardinality(FamiliesIn(jvm.vmFlags.out)) > 1)
           => jvmVendor = "Unknown"
    /\ (pc = "done" /\ op = "detectJVMVendorWithSystemProperties" /\ ~jvm.props.err
            /\ Cardinality(FamiliesIn(jvm.props.out)) > 1)
           => jvmVendor = "Unknown"

SizeSpellings == {sXmx, sXms, XXEq(sMaxHeapSize), XXEq(sMinHeapSize)}

\* digits, then at most one unit letter, then the end of the token
WellFormedSize(v) ==
    \E d \in 1..Len(v) :
        /\ \A i \in 1..d : IsDigit(v[i])
        /\ \/ d = Len(v)
           \/ d + 1 = Len(v) /\ v[d + 1] \in {"k", "m", "g", "K", "M", "G"}

\* the token is a size flag whose literal is malformed
MalformedSizeFlag(token) ==
    \E p \in SizeSpellings : HasPrefix(token, p) /\ ~WellFormedSize(TrimPrefix(token, p))

\* the tokens of s from index k on, the malformed size flags left out
RECURSIVE WithoutMalformed(_, _)
WithoutMalformed(tokens, k) ==
    IF k > Len(tokens) THEN <<>>
    ELSE (IF MalformedSizeFlag(tokens[k]) THEN <<>> ELSE <<tokens[k]>>) \o WithoutMalformed(tokens, k + 1)

\* the input as if the malformed occurrences were absent
CleanInput == Join(WithoutMalformed(Fields(cmdline), 1), <<" ">>)

\* C20: a size flag whose literal is malformed (digits followed by anything but one k/m/g unit
\* and the end of the token) contributes no value: both heap sizes are resolved as if the
\* occurrence were absent from the input.
C20_MalformedSizeContributesNothing ==
    /\ (pc = "done" /\ op = "parseJVMParamsFromString")
           => /\ ret.JavaMaxHeapSize = parseJVMParamsFromString(CleanInput).JavaMaxHeapSize
              /\ ret.JavaInitialHeapSize = parseJVMParamsFromString(CleanInput).JavaInitialHeapSize
    /\ (pc = "done" /\ op = "parseJVMParamsFromString_part000")
           => /\ ret.JavaMaxHeapSize = parseJVMParamsFromString_part000(CleanInput).JavaMaxHeapSize
              /\ ret.JavaInitialHeapSize = parseJVMParamsFromString_part000(CleanInput).JavaInitialHeapSize

\* the token holds -Xmx or -Xms in some case and does not begin with the exact spelling
Misspelled(token) ==
    /\ ~HasPrefix(token, sXmx) /\ ~HasPrefix(token, sXms)
    /\ Contains(ToLower(token), ToLower(sXmx)) \/ Contains(ToLower(token), ToLower(sXms))

RECURSIVE WithoutMisspelled(_, _)
WithoutMisspelled(tokens, k) ==
    IF k > Len(tokens) THEN <<>>
    ELSE (IF Misspelled(tokens[k]) THEN <<>> ELSE <<tokens[k]>>) \o WithoutMisspelled(tokens, k + 1)

\* text as if the wrongly spelled occurrences were absent
Respelled(text) == Join(WithoutMisspelled(Fields(text), 1), <<" ">>)

RespelledEnviron(envMap) == [k \in DOMAIN envMap |-> Respelled(envMap[k])]

\* the input the resolver named by op parses, the wrongly spelled occurrences left out
RespelledInput ==
    IF op \in StringResolvers THEN Respelled(cmdline)
    ELSE WriteArg(combinedEnvArgs(RespelledEnviron(readEnviron(env)), 1, <<>>), Respelled(cmdline))

SameHeapSizes(expected) ==
    /\ ret.JavaMaxHeapSize = expected.JavaMaxHeapSize
    /\ ret.JavaInitialHeapSize = expected.JavaInitialHeapSize

\* C21: a size flag contributes only when it starts the input or follows white space and is
\* spelled -Xmx or -Xms in this exact case: occurrences with a second dash, in another case or
\* glued to a word never change JavaMaxHeapSize or JavaInitialHeapSize, in the command line and in
\* an environment variable alike.
C21_MisspelledSizeFlagsIgnored ==
    pc = "done" =>
        SameHeapSizes(IF op \in {"parseJVMParamsFromString", "parseJVMParams"}
                      THEN parseJVMParamsFromString(RespelledInput)
                      ELSE parseJVMParamsFromString_part000(RespelledInput))

\* the variable holds a flag with a second dash, the command line a flag in the wrong case and a
\* proper -Xms: only the proper flag is resolved
C21_Witness ==
    /\ pc = "done" /\ op = "parseJVMParams"
    /\ Contains(env.data, <<"-", "-", "X", "m", "x">>)
    /\ Contains(cmdline, <<"-", "x", "m", "x">>)
    /\ ret.JavaMaxHeapSize = 0 /\ ret.JavaInitialHeapSize = 1024

\* the token is -XX:, an optional sign, a name of a letter and then letters and digits, and an
\* optional = with a non-empty value
WellFormedXX(token) ==
    /\ HasPrefix(token, sXX)
    /\ \E b \in {Len(sXX) + 1, Len(sXX) + 2} : \E e \in b..Len(token) :
          /\ b = Len(sXX) + 2 => token[b - 1] \in {"+", "-"}
          /\ IsLetter(token[b])
          /\ \A i \in (b + 1)..e : IsLetter(token[i]) \/ IsDigit(token[i])
          /\ e = Len(token) \/ (e + 1 < Len(token) /\ token[e + 1] = "=")

RECURSIVE OnlyWellFormedXX(_, _)
OnlyWellFormedXX(tokens, k) ==
    IF k > Len(tokens) THEN <<>>
    ELSE (IF WellFormedXX(tokens[k]) THEN <<tokens[k]>> ELSE <<>>) \o OnlyWellFormedXX(tokens, k + 1)

\* the tokens of the variables in the order of the list, then those of the command line
RECURSIVE SourceTokens(_, _)
SourceTokens(envMap, k) ==
    IF k > Len(SourceNames) THEN Fields(cmdline)
    ELSE (IF SourceNames[k] \in DOMAIN envMap THEN Fields(envMap[SourceNames[k]]) ELSE <<>>)
             \o SourceTokens(envMap, k + 1)

SameInput(a, b) == a.op = b.op /\ a.cmdline = b.cmdline /\ a.env = b.env

RecordStarts(data) == { s \in 1..Len(data) : (s = 1 \/ data[s - 1] = NUL) /\ \E e \in s..Len(data) : data[e] = NUL }

RecordEnd(data, s) == CHOOSE e \in s..Len(data) : data[e] = NUL /\ \A x \in s..(e - 1) : data[x] # NUL

\* the place of the first "=" of the record that starts at s, 0 when it has none
FirstEquals(data, s) ==
    LET eqs == { q \in s..(RecordEnd(data, s) - 1) : data[q] = "=" }
    IN  IF eqs = {} THEN 0 ELSE CHOOSE q \in eqs : \A x \in eqs : q <= x

KeyOf(data, s) == SubSeq(data, s, FirstEquals(data, s) - 1)

ValueOf(data, s) == SubSeq(data, FirstEquals(data, s) + 1, RecordEnd(data, s) - 1)

\* the records that have a "=" and a key before it
KeyedRecords(data) == { s \in RecordStarts(data) : FirstEquals(data, s) > s }

ExpectedEnviron(e) ==
    IF ~e.readable THEN <<>>
    ELSE LET starts == KeyedRecords(e.data)
             last(k) == CHOOSE s \in starts : KeyOf(e.data, s) = k /\ \A x \in starts : KeyOf(e.data, x) = k => x <= s
         IN  [k \in { KeyOf(e.data, s) : s \in starts } |-> ValueOf(e.data, last(k))]

\* C24: readEnviron maps the key of every record that has a "=" and a non-empty key to its value,
\* an empty value included, drops the records without "=" and the records with an empty key, and
\* returns an empty mapping when the file cannot be opened
C24_ReadEnvironDropsEmptyKeys ==
    (pc = "done" /\ op = "readEnviron") => ret = ExpectedEnviron(env)

\* the arguments that select a collector, and the collector an argument selects
Selecting(args) == { i \in 1..Len(args) : \E k \in 1..Len(cmdlineGCFlags) : args[i] = cmdlineGCFlags[k].flag }

SelectedBy(arg) == cmdlineGCFlags[CHOOSE k \in 1..Len(cmdlineGCFlags) : arg = cmdlineGCFlags[k].flag].gcType

LastSelected(args) ==
    IF Selecting(args) = {} THEN "Unknown"
    ELSE SelectedBy(args[CHOOSE i \in Selecting(args) : \A j \in Selecting(args) : j <= i])

\* C25: parseGCTypeFromCmdline returns the collector named by the last argument that selects a
\* collector, and Unknown when no argument selects one
C25_LastGCArgumentWins ==
    (pc = "done" /\ op = "parseGCTypeFromCmdline") => ret = LastSelected(Fields(cmdline))

\* the size a string stands for when read as digits, a unit letter and "b": the digits alone,
\* the digits with the unit in lower case, or nothing
UnitLetters == {"k", "m", "g", "t", "K", "M", "G", "T"}

LowerUnit(c) ==
    CASE c \in {"k", "K"} -> "k" [] c \in {"m", "M"} -> "m" [] c \in {"g", "G"} -> "g" [] OTHER -> "t"

OnlyDigits(s) == Len(s) > 0 /\ \A i \in 1..Len(s) : s[i] \in Digits

SizeAsWritten(s) ==
    IF OnlyDigits(s) THEN s
    ELSE IF Len(s) >= 2 /\ s[Len(s)] \in UnitLetters /\ OnlyDigits(SubSeq(s, 1, Len(s) - 1))
    THEN SubSeq(s, 1, Len(s) - 1) \o <<LowerUnit(s[Len(s)])>>
    ELSE IF Len(s) >= 3 /\ s[Len(s)] = "b" /\ s[Len(s) - 1] \in UnitLetters /\ OnlyDigits(SubSeq(s, 1, Len(s) - 2))
    THEN SubSeq(s, 1, Len(s) - 2) \o <<LowerUnit(s[Len(s) - 1])>>
    ELSE <<>>

\* C26: parseSize returns digits unchanged, digits with a unit letter (and an optional "b") as the
\* digits and the lower-case unit letter, and the empty string otherwise; parseFromCmdline reports
\* the size of -Xmx in that form
C26_SizeKeptAsWritten ==
    /\ (pc = "done" /\ op = "parseSize") => ret = SizeAsWritten(cmdline)
    /\ (pc = "done" /\ op = "parseFromCmdline" /\ SizeAsWritten(cmdline) # <<>>)
           => ret.JavaMaxHeapSize = SizeAsWritten(cmdline)

\* the values of the flags -XX:<name>=<value> of a dump, in order, the empty values left out
ValuesOf(flags, name) ==
    LET hits == SelectSeq(flags, LAMBDA f : HasPrefix(f, XXEq(name)) /\ Len(f) > Len(XXEq(name)))
    IN  [i \in 1..Len(hits) |-> SubSeq(hits[i], Len(XXEq(name)) + 1, Len(hits[i]))]

\* 100/fraction with one decimal, for the fractions that are numbers greater than 0
AsPercentage ==
    (<<"2">> :> <<"5", "0", ".", "0">>) @@ (<<"3">> :> <<"3", "3", ".", "3">>) @@ (<<"4">> :> <<"2", "5", ".", "0">>) @@ (<<"8">> :> <<"1", "2", ".", "5">>)

\* what the percentages and the fractions of one kind give: the last percentage when there is one,
\* else 100/fraction of a fraction that is a number greater than 0, else nothing
KindResolved(flags, percentage, fraction, value) ==
    LET percentages == ValuesOf(flags, percentage)
        given == ValuesOf(flags, fraction)
        fractions == { given[i] : i \in DOMAIN given } \cap DOMAIN AsPercentage
    IN  IF percentages # <<>> THEN value = percentages[Len(percentages)]
        ELSE IF fractions = {} THEN value = <<>>
        ELSE value \in { AsPercentage[f] : f \in fractions }

PercentageBeforeFraction(flags) ==
    /\ KindResolved(flags, sMaxRAMPercentage, sMaxRAMFraction, ret.JavaMaxHeapAsPercentage)
    /\ KindResolved(flags, sInitialRAMPercentage, sInitialRAMFraction, ret.JavaInitialHeapAsPercentage)
    /\ KindResolved(flags, sMinRAMPercentage, sMinRAMFraction, ret.MinRAMPercentage)

\* C27: in the fraction-aware parseVMFlagsOutput the last percentage flag of a kind gives the
\* percentage whatever fraction flags stand before or after it; a fraction gives 100/fraction
\* only when the kind has no percentage flag, and a fraction that is no number or not greater
\* than 0 gives nothing
C27_PercentageBeforeFraction ==
    (pc = "done" /\ op = "parseVMFlagsOutput_fraction") => PercentageBeforeFraction(Fields(jvm.vmFlags.out))

\* a percentage between two fractions of its kind
C27_Witness ==
    /\ pc = "done"
    /\ op = "parseVMFlagsOutput_fraction"
    /\ jvm.vmFlags.out = <<"-", "X", "X", ":", "M", "a", "x", "R", "A", "M", "F", "r", "a", "c", "t", "i", "o", "n", "=", "4", " ", "-", "X", "X", ":", "M", "a", "x", "R", "A", "M", "P", "e", "r", "c", "e", "n", "t", "a", "g", "e", "=", "7", "5", ".", "0", " ", "-", "X", "X", ":", "M", "a", "x", "R", "A", "M", "F", "r", "a", "c", "t", "i", "o", "n", "=", "3">>
    /\ ret.JavaMaxHeapAsPercentage = <<"7", "5", ".", "0">>

\* the collector each disable flag switches off
DisabledCollector ==
    (<<"-", "X", "X", ":", "-", "U", "s", "e", "G", "1", "G", "C">> :> "G1GC") @@ (<<"-", "X", "X", ":", "-", "U", "s", "e", "P", "a", "r", "a", "l", "l", "e", "l", "G", "C">> :> "ParallelGC")
        @@ (<<"-", "X", "X", ":", "-", "U", "s", "e", "P", "a", "r", "a", "l", "l", "e", "l", "O", "l", "d", "G", "C">> :> "ParallelOldGC")
        @@ (<<"-", "X", "X", ":", "-", "U", "s", "e", "C", "o", "n", "c", "M", "a", "r", "k", "S", "w", "e", "e", "p", "G", "C">> :> "ConcMarkSweepGC") @@ (<<"-", "X", "X", ":", "-", "U", "s", "e", "S", "e", "r", "i", "a", "l", "G", "C">> :> "SerialGC")

DisableFlagsAt(flags) == { i \in 1..Len(flags) : flags[i] \in DOMAIN DisabledCollector }

NoEnableFlag(flags) == \A i \in 1..Len(flags) : ~Contains(flags[i], <<"-", "X", "X", ":", "+", "U", "s", "e">>)

DisableNeverSelects(flags) ==
    /\ NoEnableFlag(flags) => \A i \in DisableFlagsAt(flags) : ret # DisabledCollector[flags[i]]
    /\ (NoEnableFlag(flags) /\ Cardinality(DisableFlagsAt(flags)) = 1) => ret = "Unknown"

\* C28: without an enable flag, a flag that disables a collector never makes parseHotSpotGCType
\* report that collector, and a dump whose only collector flag is one disable flag is Unknown
C28_DisableNeverSelects ==
    (pc = "done" /\ op = "parseGCType") => DisableNeverSelects(Fields(jvm.vmFlags.out))

\* C30: on one reading, whenever GetMemoryPressureLevel returns medium, high or critical,
\* IsMemoryPressureHigh returns true
C30_ClassifiersAgree ==
    \A i \in DOMAIN history : \A j \in DOMAIN history :
        (/\ history[i].op = "GetMemoryPressureLevel"
         /\ history[i].ret \in {"medium", "high", "critical"}
         /\ history[j].op = "IsMemoryPressureHigh") => history[j].ret = TRUE

\* the clean-up deleted an entry, and this entry had the earliest timestamp of all
EvictedEarliest(e) == e.deleted /\ e.oldestPid \in e.earliest

\* C29: whenever no RecordOOM call is under way in the collector it holds at most KeptOOMs entries,
\* whatever the interleaving of the callers and the readings of the clock, and every clean-up
\* deleted an entry of the earliest timestamp
C29_AtMostHundredEntries ==
    /\ (\A t \in Threads : callers[t].pc \in {"outside", "Lock"}) => Cardinality(DOMAIN occ.recentOOMs) <= KeptOOMs
    /\ \A i \in DOMAIN history : history[i].op = "delete" => EvictedEarliest(history[i])

====
